---- MODULE Spec2Model ----
(***************************************************************************)
(* State-machine model of the snapshot cache and refresh coordinator      *)
(* (app/services/market_snapshot_service.py, MarketSnapshotService) and   *)
(* of the upstream client outcomes it depends on                          *)
(* (app/providers/schwab_client.py).                                      *)
(*                                                                         *)
(* Request-handling threads (ThreadingHTTPServer, api/dashboard_server.py)*)
(* call get_snapshot concurrently.  Every `with self._lock:` block of the  *)
(* code is one atomic action; every upstream call is a suspension point,   *)
(* so a refresh body is a chain of actions, one per upstream response.     *)
(***************************************************************************)
EXTENDS Integers, Sequences, FiniteSets, TLC

\* ------------------------------------------------------------------ bounds
MaxCalls == 3
StartClock == 86395
MaxAppends == 502
MaxChecks == 3
MaxRows == 2
MaxLiveCalls == 2
MaxKeyCalls == 2
MaxLockCalls == 3

\* ------------------------------------------------------- program constants
MinRefreshSeconds == 5
MinWaitSeconds == 1
HistoryCapacity == 500
MinLimit == 1
MaxLimit == 1000
MaxRecentEvents == 300
MaxRecentErrors == 120
SecondsPerDay == 86400
NeutralBaseline == 45
TradeBonus == 8
NoTradePenalty == 4
BlockingFailPenalty == 12
SoftWarnPenalty == 4
ScoreMin == 0
ScoreMax == 100
ContractMultiplier == 100
ScorePower == 5
PinBand == 6
TopLevels == 8
ReportDigits == 2

Threads == {"t1", "t2"}
ThreadOrder == [t \in Threads |-> IF t = "t1" THEN 1 ELSE 2]
Keys == {"SPX"}
RefreshSecondsArgs == {1}
\* The instants, in seconds after construction, at which the clock is observed
ClockOffsets == {0, 5, 6}

\* Python's None: as a scalar value, and as an absent object (dict / dataclass)
None == "None"
Nil == [nil |-> TRUE]

\* ------------------------------------------------------------ pure helpers
Max(a, b) == IF a >= b THEN a ELSE b
Min(a, b) == IF a <= b THEN a ELSE b

\* MarketSnapshotService.__init__: self.refresh_seconds = max(5, int(arg))
RefreshSeconds(arg) == Max(MinRefreshSeconds, arg)

\* _resolve_schwab_symbol (INDEX_SYMBOL_MAP / f"${index_symbol}"): the symbol is
\* the index code with a "$" prefix.
_resolve_schwab_symbol(k) == [dollar |-> TRUE, name |-> k]

\* _fetch_option_chain_with_fallback, lines 129-131:
\* candidates = [symbol] + ([symbol[1:]] if symbol.startswith("$"))
ChainCandidates_FallbackFirst(symbol) ==
    IF symbol.dollar
    THEN <<[dollar |-> FALSE, name |-> symbol.name], symbol>>
    ELSE <<symbol>>
ChainCandidates(symbol) ==
    IF symbol.dollar
    THEN <<symbol, [dollar |-> FALSE, name |-> symbol.name]>>
    ELSE <<symbol>>

\* collections.deque(maxlen = n).append
DequeAppend(q, e, maxlen) ==
    LET a == Append(q, e)
    IN IF Len(a) > maxlen THEN SubSeq(a, Len(a) - maxlen + 1, Len(a)) ELSE a

\* Mutant of _append_memory_history: on overflow the newest entries are dropped
\* (del history[500:]) instead of the oldest.
AppendMemoryHistory_DropNewest(history, snap) ==
    LET a == Append(history, snap)
    IN IF Len(a) > HistoryCapacity THEN SubSeq(a, 1, HistoryCapacity) ELSE a

\* _append_memory_history: history.append(snapshot);
\* if len(history) > 500: del history[:-500]
_append_memory_history(history, snap) ==
    LET a == Append(history, snap)
    IN IF Len(a) > HistoryCapacity
       THEN SubSeq(a, Len(a) - HistoryCapacity + 1, Len(a))
       ELSE a

\* get_history: limit = max(1, min(1000, int(limit)))
ClampLimit(limit) == Max(MinLimit, Min(MaxLimit, limit))

\* list(reversed(xs))
Reversed(xs) == [i \in 1..Len(xs) |-> xs[Len(xs) + 1 - i]]

\* Mutant of get_history: the slice is returned without reversed().
GetHistory_OldestFirst(history, limit) ==
    LET L == ClampLimit(limit)
        n == Len(history)
    IN IF n > 0 THEN SubSeq(history, Max(1, n - L + 1), n) ELSE <<>>

\* get_history: list(reversed(history[-limit:])) if history else []
get_history(history, limit) ==
    LET L == ClampLimit(limit)
        n == Len(history)
    IN IF n > 0
       THEN Reversed(SubSeq(history, Max(1, n - L + 1), n))
       ELSE <<>>

\* ------------------------------------------------------- upstream outcomes
\* SchwabClient._request: HTTP status >= 400 and the token errors raise
\* SchwabClientError; a failure of requests.Session.request itself (connection
\* error, timeout) or of response.json() raises another exception type.
SchwabClientError == "SchwabClientError"
RequestException == "RequestException"
ErrorMessage == "Schwab API error 500"

QuotesOutcomes == {"QUOTES", SchwabClientError, RequestException}
ChainOutcomes == {"CHAIN", "EMPTY", SchwabClientError, RequestException}
StrategyOutcomes == {"TRADE", "raise"}

\* ---------------------------------------------------------------- snapshots
\* _build_unavailable_strategy
_build_unavailable_strategy(reason) ==
    [core_available |-> FALSE, core_strategy |-> "UNAVAILABLE",
     action |-> "NO_TRADE", primary_reason |-> reason,
     checks |-> {}, error |-> reason]

\* build_dashboard_strategy when it returns (its verdict is an input here)
StrategyBlock(action) ==
    [core_available |-> TRUE, core_strategy |-> "SETUP",
     action |-> action, primary_reason |-> "engine",
     checks |-> {"market_open_day"}, error |-> None]

\* snapshot["system"], lines 368-373 and 428-433
SystemBlock(rs, error) ==
    [refresh_seconds |-> rs, source |-> "schwab", error |-> error]

\* Mutant of SuccessSnapshot: a strategy failure is also recorded as the
\* snapshot's system.error.
SuccessSnapshot_StrategyErrorLeaks(id, k, rs, ch, strat) ==
    [id |-> id, index |-> k,
     spot |-> "spot", vix |-> "vix",
     pin |-> IF ch = "EMPTY" THEN None ELSE "pin",
     direction_bias |-> IF ch = "EMPTY" THEN "UNKNOWN" ELSE "NEUTRAL_PIN",
     observation |-> IF ch = "EMPTY" THEN "INCONCLUSIVE" ELSE "PINNING_RISK",
     strategy |-> IF strat = "raise"
                  THEN _build_unavailable_strategy("Strategy compute failed")
                  ELSE StrategyBlock(strat),
     system |-> SystemBlock(rs, IF strat = "raise" THEN "Strategy compute failed"
                                ELSE None)]

\* refresh_snapshot, success path lines 344-374: build_dashboard_snapshot, the
\* strategy (or its unavailable block when build_dashboard_strategy raises) and
\* the system block with error = None.
SuccessSnapshot(id, k, rs, ch, strat) ==
    [id |-> id, index |-> k,
     spot |-> "spot", vix |-> "vix",
     pin |-> IF ch = "EMPTY" THEN None ELSE "pin",
     direction_bias |-> IF ch = "EMPTY" THEN "UNKNOWN" ELSE "NEUTRAL_PIN",
     observation |-> IF ch = "EMPTY" THEN "INCONCLUSIVE" ELSE "PINNING_RISK",
     strategy |-> IF strat = "raise"
                  THEN _build_unavailable_strategy("Strategy compute failed")
                  ELSE StrategyBlock(strat),
     system |-> SystemBlock(rs, None)]

\* refresh_snapshot, except SchwabClientError, lines 415-434
ErrorSnapshot(id, k, rs, msg) ==
    [id |-> id, index |-> k,
     spot |-> None, vix |-> None, pin |-> None,
     direction_bias |-> "UNKNOWN", observation |-> "UNAVAILABLE",
     strategy |-> _build_unavailable_strategy("Snapshot unavailable"),
     system |-> SystemBlock(rs, msg)]

\* Mutant of StaleCopy: the cached snapshot is returned as it is, unmarked.
StaleCopy_Unmarked(snap) == snap

\* get_snapshot lines 473-477: deepcopy with system.stale / stale_reason added
StaleCopy(snap) ==
    [snap EXCEPT !.system =
        [refresh_seconds |-> snap.system.refresh_seconds,
         source |-> snap.system.source,
         error |-> snap.system.error,
         stale |-> TRUE, stale_reason |-> "refresh_in_progress"]]

\* SnapshotState dataclass
SnapshotState(snap, epoch, err) ==
    [snapshot |-> snap, updated_at_epoch |-> epoch, last_error |-> err]

\* ------------------------------------------------------------------- state
VARIABLES
    refresh_seconds,    \* self.refresh_seconds
    clock,              \* time.time() / dt.datetime.now(), in seconds
    states,             \* self._states: key -> SnapshotState (partial map)
    history_cache,      \* self._history_cache: key -> list of snapshots (partial map)
    refresh_locks,      \* self._refresh_locks: key -> locked? (partial map)
    recent_events,      \* self._recent_events
    recent_errors,      \* self._recent_errors
    durable_log,        \* the dashboard_snapshots_<key>_<day>.jsonl files
    next_id,            \* identity of the next snapshot object built
    calls,              \* get_snapshot calls started so far
    history_limit,      \* <<limit>> of the last get_history call, if any
    history_result,     \* value returned by the last get_history call
    thread,             \* per request thread: the frame of its running call
    pending,            \* compute_tradeable_signal: the checks still to evaluate
    checks,             \* compute_tradeable_signal: `checks`, in insertion order
    reasons,            \* compute_tradeable_signal: `reasons`
    strategy,           \* snapshot["strategy"] once it is decided
    strategy_ui,        \* snapshot["strategy_ui"] once the snapshot is decorated
    gex_rows,           \* _compute_gex: the argument `rows`
    spot_price,         \* _compute_gex: the argument `spot_price`
    gex_cursor,         \* _compute_gex: rows consumed by the loop of line 134
    gex_by_strike,      \* _compute_gex: signed total per strike (insertion order)
    call_gex_by_strike, \* _compute_gex: call-only total per strike
    put_gex_by_strike,  \* _compute_gex: put-only total per strike
    gex_result,         \* _compute_gex: the returned section, once computed
    gex_previous,       \* the section an earlier call returned for the same arguments
    index_quote,        \* build_dashboard_snapshot: the argument `index_quote`
    quote_price,        \* <<value returned by extract_quote_price>>, once called
    index_spot,         \* build_dashboard_snapshot: <<spot>> once line 235 has run
    score_args,         \* score(strike, gex): the spot and the strikes it is applied to
    score_near,         \* <<score of the nearer strike>>, once computed
    score_far,          \* <<score of the farther strike>>, once computed
    signal_input,       \* build_dashboard_strategy: its arguments and what it reads
    state_mutex,        \* self._lock: the thread holding it, or None
    slot_holder,        \* self._refresh_locks[key]: the thread holding it, or None
    lock_cached,        \* whether self._states[key].snapshot is set
    lock_frames,        \* per request thread: where its call stands on the locks
    lock_calls          \* service calls started so far

svc_vars == <<refresh_seconds, states, history_cache, refresh_locks,
              recent_events, recent_errors, durable_log, next_id>>
env_vars == <<clock>>
call_vars == <<calls, history_limit, history_result>>
pipe_vars == <<pending, checks, reasons, strategy, strategy_ui>>
gex_vars == <<gex_rows, spot_price, gex_cursor, gex_by_strike,
              call_gex_by_strike, put_gex_by_strike, gex_result>>
build_vars == <<gex_previous, index_quote, quote_price, index_spot>>
score_vars == <<score_args, score_near, score_far>>
input_vars == <<signal_input>>
lock_vars == <<state_mutex, slot_holder, lock_cached, lock_frames, lock_calls>>
engine_vars == <<pipe_vars, gex_vars, build_vars, score_vars, input_vars, lock_vars>>
vars == <<svc_vars, env_vars, call_vars, thread, engine_vars>>

\* The frame of a thread: its position (pc) and the locals of get_snapshot /
\* refresh_snapshot.  A frame at pc = "done" is a call that has returned (or
\* raised); it is kept until the thread serves its next request.
\*   index_code      argument of the call
\*   snapshot        get_snapshot's local `snapshot` (line 459)
\*   holds           the thread acquired the refresh slot at line 464
\*   wait_since      start of the timed wait of line 481
\*   now             refresh_snapshot's `now` / `started_at`
\*   chain_requests  symbols asked of get_option_chain in this refresh
\*   chain_answers   what get_option_chain answered to them, in order
\*   chain           the chain the refresh uses
\*   strategy_failed build_dashboard_strategy raised in this refresh
\*   built           the snapshot the refresh built
\*   refreshes       refresh bodies entered by this call
\*   upstream_calls  upstream requests issued by this call
\*   result, raised  what the call returns / the exception leaving it
IdleFrame ==
    [pc |-> "idle", index_code |-> None, snapshot |-> Nil, holds |-> FALSE,
     wait_since |-> 0, now |-> 0, chain_requests |-> <<>>,
     chain_answers |-> <<>>, chain |-> None,
     strategy_failed |-> FALSE, built |-> Nil, refreshes |-> 0,
     upstream_calls |-> 0, result |-> Nil, raised |-> None]

RefreshBodyPcs ==
    {"rs_quotes", "rs_chain", "rs_build", "rs_warn", "rs_store", "rs_write",
     "rs_fail_store"}

\* dict.get(key) on a partial map
Get(map, k) == IF k \in DOMAIN map THEN map[k] ELSE Nil
\* dict.get(key, []) on a map of lists
GetList(map, k) == IF k \in DOMAIN map THEN map[k] ELSE <<>>
\* d[k] = v
Put(map, k, v) == [x \in DOMAIN map \cup {k} |-> IF x = k THEN v ELSE map[x]]
\* d.setdefault(k, v) as an update of d
SetDefault(map, k, v) == IF k \in DOMAIN map THEN map ELSE Put(map, k, v)

\* _history_path: one file per key and calendar day
_history_path(k, t) == <<k, t \div SecondsPerDay>>

\* Mutant of IsFresh: the comparison is the wrong way round.
IsFresh_Reversed(state, t, rs) ==
    /\ state # Nil
    /\ state.snapshot # Nil
    /\ (t - state.updated_at_epoch) > rs

\* get_snapshot line 460: snapshot and (time.time() - updated_at) < refresh_seconds
IsFresh(state, t, rs) ==
    /\ state # Nil
    /\ state.snapshot # Nil
    /\ (t - state.updated_at_epoch) < rs

\* Mutant of WaitTimeout: min() in place of max().
WaitTimeout_MinForMax(rs) == Min(MinWaitSeconds, rs)

\* get_snapshot line 481: timeout = max(1.0, self.refresh_seconds)
WaitTimeout(rs) == Max(MinWaitSeconds, rs)

\* refresh_snapshot line 394: elapsed_ms > self.refresh_seconds * 1000.0
IsSlow(started, t, rs) == (t - started) > rs

\* No strategy evaluation is in progress.
InitPipeline ==
    /\ pending = << >>
    /\ checks = << >>
    /\ reasons = << >>
    /\ strategy = Nil
    /\ strategy_ui = Nil

\* No GEX computation is in progress.
InitGex ==
    /\ gex_rows = << >>
    /\ spot_price = 1
    /\ gex_cursor = 0
    /\ gex_by_strike = << >>
    /\ call_gex_by_strike = << >>
    /\ put_gex_by_strike = << >>
    /\ gex_result = Nil

InitBuild ==
    /\ gex_previous = Nil
    /\ index_quote = Nil
    /\ quote_price = << >>
    /\ index_spot = << >>

InitScore ==
    /\ score_args = Nil
    /\ score_near = << >>
    /\ score_far = << >>

\* No strategy has been asked for.
InitInput == signal_input = Nil

\* No call is running; both locks are free.
InitLocks ==
    /\ state_mutex = None
    /\ slot_holder = None
    /\ lock_cached = FALSE
    /\ lock_frames = [t \in Threads |-> Nil]
    /\ lock_calls = 0

InitEngine ==
    InitPipeline /\ InitGex /\ InitBuild /\ InitScore /\ InitInput /\ InitLocks

InitService ==
    /\ refresh_seconds \in {RefreshSeconds(a) : a \in RefreshSecondsArgs}
    /\ clock = StartClock
    /\ states = << >>
    /\ history_cache = << >>
    /\ refresh_locks = << >>
    /\ recent_events = << >>
    /\ recent_errors = << >>
    /\ durable_log = << >>
    /\ next_id = 1
    /\ calls = 0
    /\ history_limit = << >>
    /\ history_result = << >>
    /\ thread = [t \in Threads |-> IdleFrame]

Init == InitService /\ InitEngine

\* --------------------------------------------------------------- operations
Frame(t) == thread[t]
SetFrame(t, f) == thread' = [thread EXCEPT ![t] = f]

\* _append_event: with self._lock, append to the ring buffers
_append_event(event) ==
    /\ recent_events' = DequeAppend(recent_events, event, MaxRecentEvents)
    /\ recent_errors' =
         IF event.level \in {"warning", "error"}
         THEN DequeAppend(recent_errors, event, MaxRecentErrors)
         ELSE recent_errors

\* Entry of refresh_snapshot (lines 332-339): read the clocks and issue
\* client.get_quotes.  slot tells whether the caller holds the refresh slot.
EnterRefresh(f, slot) ==
    [f EXCEPT !.pc = "rs_quotes", !.holds = slot, !.now = clock,
              !.chain_requests = <<>>, !.chain_answers = <<>>,
              !.chain = None, !.built = Nil,
              !.strategy_failed = FALSE,
              !.refreshes = @ + 1, !.upstream_calls = @ + 1]

\* The frame of a finished call: what it returned or raised, what it saw and
\* what it issued; the other locals are dead.
Finished(f, value, exc) ==
    [IdleFrame EXCEPT !.pc = "done", !.index_code = f.index_code,
                      !.snapshot = f.snapshot, !.refreshes = f.refreshes,
                      !.upstream_calls = f.upstream_calls,
                      !.chain_requests = f.chain_requests,
                      !.chain_answers = f.chain_answers,
                      !.strategy_failed = f.strategy_failed,
                      !.result = value, !.raised = exc]

\* refresh_snapshot returns `value` to get_snapshot: through the finally of
\* line 467 when the slot is held, straight to the caller otherwise.
ReturnFromRefresh(f, value) ==
    IF f.holds
    THEN [f EXCEPT !.pc = "gs_release", !.result = value]
    ELSE Finished(f, value, None)

\* An exception that refresh_snapshot does not catch leaves it.
RaiseFromRefresh(f, exc) ==
    IF f.holds
    THEN [f EXCEPT !.pc = "gs_release", !.raised = exc]
    ELSE Finished(f, Nil, exc)

\* A request is served by a free thread; the threads being interchangeable,
\* by the first free one.
Free(t) == thread[t].pc \in {"idle", "done"}
FirstFree(t) == Free(t) /\ \A u \in Threads : Free(u) => ThreadOrder[t] <= ThreadOrder[u]

\* get_snapshot lines 455-462: the first critical section.
GetSnapshot(t, k) ==
    /\ FirstFree(t)
    /\ calls < MaxCalls
    /\ calls' = calls + 1
    /\ LET state == Get(states, k)
           snap == IF state # Nil THEN state.snapshot ELSE Nil
       IN IF IsFresh(state, clock, refresh_seconds)
          THEN /\ SetFrame(t, Finished([IdleFrame EXCEPT !.index_code = k,
                                                           !.snapshot = snap],
                                         snap, None))
               /\ UNCHANGED refresh_locks
          ELSE /\ SetFrame(t, [IdleFrame EXCEPT !.pc = "gs_try", !.index_code = k,
                                                !.snapshot = snap])
               /\ refresh_locks' = SetDefault(refresh_locks, k, FALSE)
    /\ UNCHANGED <<engine_vars, refresh_seconds, states, history_cache, recent_events,
                   recent_errors, durable_log, next_id, env_vars,
                   history_limit, history_result>>

\* get_snapshot lines 464-480: refresh_lock.acquire(blocking=False), and what
\* follows a failed acquisition.
\* Mutant without the deepcopy of line 473: the flag is written into the cached
\* object, which SnapshotState and the history hold too.
TryAcquire_MarksCached(t) ==
    LET f == Frame(t)
        k == f.index_code
        Marked(snap) == IF snap = f.snapshot THEN StaleCopy(snap) ELSE snap
    IN /\ f.pc = "gs_try"
       /\ IF ~refresh_locks[k]
          THEN /\ refresh_locks' = [refresh_locks EXCEPT ![k] = TRUE]
               /\ SetFrame(t, EnterRefresh(f, TRUE))
               /\ UNCHANGED <<states, history_cache>>
          ELSE /\ UNCHANGED refresh_locks
               /\ IF f.snapshot # Nil
                  THEN /\ SetFrame(t, Finished(f, StaleCopy(f.snapshot), None))
                       /\ states' = [x \in DOMAIN states |->
                                        [states[x] EXCEPT !.snapshot = Marked(@)]]
                       /\ history_cache' =
                            [x \in DOMAIN history_cache |->
                                [i \in 1..Len(history_cache[x]) |->
                                    Marked(history_cache[x][i])]]
                  ELSE /\ SetFrame(t, [f EXCEPT !.pc = "gs_wait",
                                                !.wait_since = clock])
                       /\ UNCHANGED <<states, history_cache>>
       /\ UNCHANGED <<engine_vars, refresh_seconds, recent_events,
                      recent_errors, durable_log, next_id, env_vars, call_vars>>
TryAcquire(t) ==
    LET f == Frame(t)
        k == f.index_code
    IN /\ f.pc = "gs_try"
       /\ IF ~refresh_locks[k]
          THEN /\ refresh_locks' = [refresh_locks EXCEPT ![k] = TRUE]
               /\ SetFrame(t, EnterRefresh(f, TRUE))
          ELSE /\ UNCHANGED refresh_locks
               /\ IF f.snapshot # Nil
                  THEN SetFrame(t, Finished(f, StaleCopy(f.snapshot), None))
                  ELSE SetFrame(t, [f EXCEPT !.pc = "gs_wait",
                                             !.wait_since = clock])
       /\ UNCHANGED <<engine_vars, refresh_seconds, states, history_cache, recent_events,
                      recent_errors, durable_log, next_id, env_vars, call_vars>>

\* get_snapshot line 481: refresh_lock.acquire(timeout=...) succeeds.
WaitAcquire(t) ==
    LET f == Frame(t)
        k == f.index_code
    IN /\ f.pc = "gs_wait"
       /\ ~refresh_locks[k]
       /\ (clock - f.wait_since) <= WaitTimeout(refresh_seconds)
       /\ refresh_locks' = [refresh_locks EXCEPT ![k] = TRUE]
       /\ SetFrame(t, [f EXCEPT !.pc = "gs_wait_release"])
       /\ UNCHANGED <<engine_vars, refresh_seconds, states, history_cache, recent_events,
                      recent_errors, durable_log, next_id, env_vars, call_vars>>

\* get_snapshot lines 481 and 488: the timed wait expires with the slot still
\* held by another thread, and the caller refreshes without the slot.
WaitExpire(t) ==
    LET f == Frame(t)
        k == f.index_code
    IN /\ f.pc = "gs_wait"
       /\ refresh_locks[k]
       /\ (clock - f.wait_since) >= WaitTimeout(refresh_seconds)
       /\ SetFrame(t, EnterRefresh(f, FALSE))
       /\ UNCHANGED <<engine_vars, svc_vars, env_vars, call_vars>>

\* get_snapshot line 482: refresh_lock.release() after the successful wait.
WaitRelease(t) ==
    LET f == Frame(t)
        k == f.index_code
    IN /\ f.pc = "gs_wait_release"
       /\ refresh_locks' = [refresh_locks EXCEPT ![k] = FALSE]
       /\ SetFrame(t, [f EXCEPT !.pc = "gs_recheck"])
       /\ UNCHANGED <<engine_vars, refresh_seconds, states, history_cache, recent_events,
                      recent_errors, durable_log, next_id, env_vars, call_vars>>

\* get_snapshot lines 483-488: the second critical section, then the direct
\* refresh.
Recheck_WaitsAgain(t) ==
    LET f == Frame(t)
        state == Get(states, f.index_code)
    IN /\ f.pc = "gs_recheck"
       /\ IF state # Nil /\ state.snapshot # Nil
          THEN SetFrame(t, Finished(f, state.snapshot, None))
          ELSE SetFrame(t, [f EXCEPT !.pc = "gs_wait", !.wait_since = clock])
       /\ UNCHANGED <<engine_vars, svc_vars, env_vars, call_vars>>
Recheck(t) ==
    LET f == Frame(t)
        state == Get(states, f.index_code)
    IN /\ f.pc = "gs_recheck"
       /\ IF state # Nil /\ state.snapshot # Nil
          THEN SetFrame(t, Finished(f, state.snapshot, None))
          ELSE SetFrame(t, EnterRefresh(f, FALSE))
       /\ UNCHANGED <<engine_vars, svc_vars, env_vars, call_vars>>

\* refresh_snapshot lines 414-446: except SchwabClientError: build the
\* 'unavailable' snapshot and record the error event.
CatchClientError(t, f) ==
    /\ SetFrame(t, [f EXCEPT !.pc = "rs_fail_store",
                             !.built = ErrorSnapshot(next_id, f.index_code,
                                                     refresh_seconds,
                                                     ErrorMessage)])
    /\ next_id' = next_id + 1
    /\ _append_event([level |-> "error", event |-> "snapshot_refresh_failed",
                      index |-> f.index_code])
    /\ UNCHANGED <<engine_vars, refresh_seconds, states, history_cache, refresh_locks,
                   durable_log, env_vars, call_vars>>

\* Any other exception is not caught by refresh_snapshot.
Propagate(t, f, exc) ==
    /\ SetFrame(t, RaiseFromRefresh(f, exc))
    /\ UNCHANGED <<engine_vars, svc_vars, env_vars, call_vars>>

\* refresh_snapshot line 339: client.get_quotes answers; on success line 342
\* issues the first get_option_chain request.
RsQuotes(t) ==
    LET f == Frame(t)
        candidates == ChainCandidates(_resolve_schwab_symbol(f.index_code))
    IN /\ f.pc = "rs_quotes"
       /\ \E outcome \in QuotesOutcomes :
            CASE outcome = "QUOTES" ->
                   /\ SetFrame(t, [f EXCEPT !.pc = "rs_chain",
                                            !.chain_requests = <<candidates[1]>>,
                                            !.upstream_calls = @ + 1])
                   /\ UNCHANGED <<engine_vars, svc_vars, env_vars, call_vars>>
              [] outcome = SchwabClientError -> CatchClientError(t, f)
              [] OTHER -> Propagate(t, f, outcome)

\* _fetch_option_chain_with_fallback lines 132-136: a get_option_chain request
\* answers; an empty chain moves on to the next candidate symbol.
RsChain(t) ==
    LET candidates == ChainCandidates(_resolve_schwab_symbol(Frame(t).index_code))
        asked == Len(Frame(t).chain_requests)
    IN /\ Frame(t).pc = "rs_chain"
       /\ \E outcome \in ChainOutcomes :
            LET f == [Frame(t) EXCEPT !.chain_answers = Append(@, outcome)]
            IN CASE outcome = "CHAIN" ->
                   /\ SetFrame(t, [f EXCEPT !.pc = "rs_build", !.chain = "CHAIN"])
                   /\ UNCHANGED <<engine_vars, svc_vars, env_vars, call_vars>>
              [] outcome = "EMPTY" ->
                   /\ IF asked < Len(candidates)
                      THEN SetFrame(t, [f EXCEPT
                               !.chain_requests = Append(@, candidates[asked + 1]),
                               !.upstream_calls = @ + 1])
                      ELSE SetFrame(t, [f EXCEPT !.pc = "rs_build",
                                                 !.chain = "EMPTY"])
                   /\ UNCHANGED <<engine_vars, svc_vars, env_vars, call_vars>>
              [] outcome = SchwabClientError -> CatchClientError(t, f)
              [] OTHER -> Propagate(t, f, outcome)

\* refresh_snapshot lines 344-392: build the snapshot, the strategy block
\* (build_dashboard_strategy may raise, lines 352-367), the system block, and
\* record the snapshot_refresh_ok event.
RsBuild(t) ==
    LET f == Frame(t)
    IN /\ f.pc = "rs_build"
       /\ \E strat \in StrategyOutcomes :
            SetFrame(t, [f EXCEPT
                !.pc = IF IsSlow(f.now, clock, refresh_seconds)
                       THEN "rs_warn" ELSE "rs_store",
                !.strategy_failed = (strat = "raise"),
                !.built = SuccessSnapshot(next_id, f.index_code,
                                          refresh_seconds, f.chain, strat)])
       /\ next_id' = next_id + 1
       /\ _append_event([level |-> "info", event |-> "snapshot_refresh_ok",
                         index |-> f.index_code])
       /\ UNCHANGED <<engine_vars, refresh_seconds, states, history_cache, refresh_locks,
                      durable_log, env_vars, call_vars>>

\* refresh_snapshot lines 394-405: the snapshot_refresh_slow warning.
RsWarn(t) ==
    LET f == Frame(t)
    IN /\ f.pc = "rs_warn"
       /\ SetFrame(t, [f EXCEPT !.pc = "rs_store"])
       /\ _append_event([level |-> "warning", event |-> "snapshot_refresh_slow",
                         index |-> f.index_code])
       /\ UNCHANGED <<engine_vars, refresh_seconds, states, history_cache, refresh_locks,
                      durable_log, next_id, env_vars, call_vars>>

\* Mutant of StoreSnapshot: the history is kept in the order in which the
\* snapshots were built instead of the order in which they were stored.
StoreSnapshot_HistoryInBuildOrder(k, snap, epoch, err) ==
    /\ states' = Put(states, k, SnapshotState(snap, epoch, err))
    /\ history_cache' =
         LET h == GetList(history_cache, k)
             before == SelectSeq(h, LAMBDA s : s.id < snap.id)
             after == SelectSeq(h, LAMBDA s : s.id > snap.id)
         IN Put(history_cache, k, before \o <<snap>> \o after)

\* Mutant of StoreSnapshot: the history append is left out.
StoreSnapshot_StateOnly(k, snap, epoch, err) ==
    /\ states' = Put(states, k, SnapshotState(snap, epoch, err))
    /\ history_cache' = history_cache

\* Mutant of StoreSnapshot: one SnapshotState and one history shared by the
\* keys seen so far.
StoreSnapshot_EveryKey(k, snap, epoch, err) ==
    /\ states' = [x \in DOMAIN states \cup {k} |-> SnapshotState(snap, epoch, err)]
    /\ history_cache' =
         [x \in DOMAIN history_cache \cup {k} |->
             _append_memory_history(GetList(history_cache, x), snap)]

\* The critical sections of lines 406-411 and 447-452: replace SnapshotState
\* and append to the in-memory history.
StoreSnapshot(k, snap, epoch, err) ==
    /\ states' = Put(states, k, SnapshotState(snap, epoch, err))
    /\ history_cache' =
         Put(history_cache, k, _append_memory_history(GetList(history_cache, k), snap))

\* refresh_snapshot lines 406-411.
\* Mutant: line 410 (state.last_error = None) is left out.
RsStore_KeepsLastError(t) ==
    LET f == Frame(t)
        state == Get(states, f.index_code)
    IN /\ f.pc = "rs_store"
       /\ StoreSnapshot(f.index_code, f.built, clock,
                        IF state # Nil THEN state.last_error ELSE None)
       /\ SetFrame(t, [f EXCEPT !.pc = "rs_write"])
       /\ UNCHANGED <<engine_vars, refresh_seconds, refresh_locks, recent_events,
                      recent_errors, durable_log, next_id, env_vars, call_vars>>
RsStore(t) ==
    LET f == Frame(t)
    IN /\ f.pc = "rs_store"
       /\ StoreSnapshot(f.index_code, f.built, clock, None)
       /\ SetFrame(t, [f EXCEPT !.pc = "rs_write"])
       /\ UNCHANGED <<engine_vars, refresh_seconds, refresh_locks, recent_events,
                      recent_errors, durable_log, next_id, env_vars, call_vars>>

\* _write_history: append one line to the file of the key and the current day
_write_history(k, snap) ==
    LET path == _history_path(k, clock)
    IN durable_log' = Put(durable_log, path, Append(GetList(durable_log, path), snap))

\* refresh_snapshot lines 412-413.
RsWrite(t) ==
    LET f == Frame(t)
    IN /\ f.pc = "rs_write"
       /\ _write_history(f.index_code, f.built)
       /\ SetFrame(t, ReturnFromRefresh(f, f.built))
       /\ UNCHANGED <<engine_vars, refresh_seconds, states, history_cache, refresh_locks,
                      recent_events, recent_errors, next_id, env_vars, call_vars>>

\* refresh_snapshot lines 447-453.
RsFailStore(t) ==
    LET f == Frame(t)
    IN /\ f.pc = "rs_fail_store"
       /\ StoreSnapshot(f.index_code, f.built, clock, f.built.system.error)
       /\ SetFrame(t, ReturnFromRefresh(f, f.built))
       /\ UNCHANGED <<engine_vars, refresh_seconds, refresh_locks, recent_events,
                      recent_errors, durable_log, next_id, env_vars, call_vars>>

\* get_snapshot lines 467-468: finally: refresh_lock.release()
GsRelease_OnlyOnReturn(t) ==
    LET f == Frame(t)
    IN /\ f.pc = "gs_release"
       /\ refresh_locks' = IF f.raised = None
                           THEN [refresh_locks EXCEPT ![f.index_code] = FALSE]
                           ELSE refresh_locks
       /\ SetFrame(t, Finished(f, f.result, f.raised))
       /\ UNCHANGED <<engine_vars, refresh_seconds, states, history_cache, recent_events,
                      recent_errors, durable_log, next_id, env_vars, call_vars>>
GsRelease(t) ==
    LET f == Frame(t)
    IN /\ f.pc = "gs_release"
       /\ refresh_locks' = [refresh_locks EXCEPT ![f.index_code] = FALSE]
       /\ SetFrame(t, Finished(f, f.result, f.raised))
       /\ UNCHANGED <<engine_vars, refresh_seconds, states, history_cache, recent_events,
                      recent_errors, durable_log, next_id, env_vars, call_vars>>

\* Time passes.
Tick ==
    /\ \E d \in ClockOffsets :
         /\ StartClock + d > clock
         /\ clock' = StartClock + d
    /\ UNCHANGED <<engine_vars, svc_vars, call_vars, thread>>

Next ==
    \/ \E t \in Threads, k \in Keys : GetSnapshot(t, k)
    \/ \E t \in Threads : TryAcquire(t)
    \/ \E t \in Threads : WaitAcquire(t)
    \/ \E t \in Threads : WaitExpire(t)
    \/ \E t \in Threads : WaitRelease(t)
    \/ \E t \in Threads : Recheck(t)
    \/ \E t \in Threads : RsQuotes(t)
    \/ \E t \in Threads : RsChain(t)
    \/ \E t \in Threads : RsBuild(t)
    \/ \E t \in Threads : RsWarn(t)
    \/ \E t \in Threads : RsStore(t)
    \/ \E t \in Threads : RsWrite(t)
    \/ \E t \in Threads : RsFailStore(t)
    \/ \E t \in Threads : GsRelease(t)
    \/ Tick

Spec == Init /\ [][Next]_vars

\* ------------------------------------------------------------ fair runs
\* The runs in which every started call is scheduled again and again and
\* every upstream request is answered: a thread inside get_snapshot takes its
\* next step whenever it can.  A timed wait ends at its deadline at the latest,
\* so the clock does not pass the deadline of a thread still waiting.
ThreadStep(t) ==
    \/ TryAcquire(t)
    \/ WaitAcquire(t)
    \/ WaitExpire(t)
    \/ WaitRelease(t)
    \/ Recheck(t)
    \/ RsQuotes(t)
    \/ RsChain(t)
    \/ RsBuild(t)
    \/ RsWarn(t)
    \/ RsStore(t)
    \/ RsWrite(t)
    \/ RsFailStore(t)
    \/ GsRelease(t)

TickLive ==
    /\ Tick
    /\ \A t \in Threads :
         thread[t].pc = "gs_wait"
             => clock' - thread[t].wait_since <= WaitTimeout(refresh_seconds)

NextLive ==
    \/ \E t \in Threads, k \in Keys : GetSnapshot(t, k) /\ calls < MaxLiveCalls
    \/ \E t \in Threads : ThreadStep(t)
    \/ TickLive

SpecLive ==
    /\ Init
    /\ [][NextLive]_vars
    /\ \A t \in Threads : WF_vars(ThreadStep(t))
    /\ WF_vars(TickLive)

\* ------------------------------------------------------------ several keys
\* The same service polled for two keys (INDEX_SYMBOL_MAP, lines 22-25).
AllKeys == {"SPX", "NDX"}

NextKeys ==
    \/ \E t \in Threads, k \in AllKeys : GetSnapshot(t, k) /\ calls < MaxKeyCalls
    \/ \E t \in Threads : ThreadStep(t)
    \/ Tick

SpecKeys == Init /\ [][NextKeys]_vars

\* ----------------------------------------------------- history buffer runs
\* A run of forced refreshes (refresh_snapshot called in a loop, as
\* run_signal.py line 66 does) and of get_history calls, on one key and one
\* thread.  The upstream outcome of the n-th refresh is fixed: odd refreshes
\* succeed, even ones meet a SchwabClientError.
HistKey == "SPX"
HistoryLimits == {-1, 0, 1, 2, 499, 500, 501, 1000, 1001}

\* refresh_snapshot lines 331-453, run without interleaving.
HistRefresh ==
    /\ next_id <= MaxAppends
    /\ LET ok == (next_id % 2 = 1)
           snap == IF ok
                   THEN SuccessSnapshot(next_id, HistKey, refresh_seconds, "CHAIN", "TRADE")
                   ELSE ErrorSnapshot(next_id, HistKey, refresh_seconds, ErrorMessage)
       IN /\ StoreSnapshot(HistKey, snap, clock, snap.system.error)
          /\ IF ok THEN _write_history(HistKey, snap) ELSE UNCHANGED durable_log
          /\ _append_event(IF ok
                           THEN [level |-> "info", event |-> "snapshot_refresh_ok",
                                 index |-> HistKey]
                           ELSE [level |-> "error", event |-> "snapshot_refresh_failed",
                                 index |-> HistKey])
    /\ next_id' = next_id + 1
    /\ history_limit' = << >>
    /\ history_result' = << >>
    /\ UNCHANGED <<engine_vars, refresh_seconds, refresh_locks, env_vars, calls, thread>>

\* get_history lines 490-497.
HistGet(limit) ==
    /\ history_limit' = <<limit>>
    /\ history_result' = get_history(GetList(history_cache, HistKey), limit)
    /\ UNCHANGED <<engine_vars, svc_vars, env_vars, calls, thread>>

NextHist ==
    \/ HistRefresh
    \/ \E limit \in HistoryLimits : HistGet(limit)

SpecHist == Init /\ [][NextHist]_vars

\* ------------------------------------------------ check pipeline and score
\* One evaluation of the strategy of a snapshot: compute_tradeable_signal runs
\* its checks through add_check and concludes, or build_dashboard_strategy
\* raises and refresh_snapshot substitutes the unavailable block; then
\* _decorate_snapshot derives strategy_ui.  The checks of a run are the first
\* n entries of CheckNames, each with an outcome and a blocking flag.
CheckNames == <<"market_open_day", "vix_spike", "realized_volatility",
                "friday_policy", "gex_pin">>

\* The pass_detail / fail_detail arguments of the add_check calls
PassDetail(name) ==
    CASE name = "market_open_day" -> "Weekday session"
      [] name = "vix_spike" -> "No VIX spike detected"
      [] name = "realized_volatility" -> "Realized volatility acceptable"
      [] name = "friday_policy" -> "Friday policy satisfied"
      [] OTHER -> "GEX pin available"
FailDetail(name) ==
    CASE name = "market_open_day" -> "Weekend - no 0DTE trading"
      [] name = "vix_spike" -> "VIX spike detected"
      [] name = "realized_volatility" -> "Realized volatility too high"
      [] name = "friday_policy" -> "Friday trading disabled by policy"
      [] OTHER -> "GEX pin unavailable"

CheckInput(name, ok, blocking) ==
    [name |-> name, ok |-> ok, blocking |-> blocking,
     pass_detail |-> PassDetail(name), fail_detail |-> FailDetail(name)]

\* The runs: n checks, n <= MaxChecks, every outcome and blocking flag
CheckRuns ==
    UNION {{[i \in 1..n |-> CheckInput(CheckNames[i], o[i], b[i])] :
                o \in [1..n -> BOOLEAN], b \in [1..n -> BOOLEAN]} :
           n \in 0..MaxChecks}

AllEntryFiltersPassed == "All entry filters passed"

\* add_check, lines 429-430: the entry written to `checks`
CheckEntry(c) ==
    [name |-> c.name, ok |-> c.ok,
     detail |-> IF c.ok THEN c.pass_detail ELSE c.fail_detail,
     blocking |-> c.blocking]

\* Mutant of ReasonsAfter: every failing check adds its reason, blocking or not.
ReasonsAfter_AnyFailure(rs, c) ==
    IF ~c.ok THEN Append(rs, CheckEntry(c).detail) ELSE rs

\* add_check, lines 431-432: `reasons` after the check
ReasonsAfter(rs, c) ==
    IF c.blocking /\ ~c.ok THEN Append(rs, CheckEntry(c).detail) ELSE rs

\* Mutant of TradeableSignal: the last reason is reported, not the first.
TradeableSignal_LastReason(rs, cs) ==
    LET action == IF rs = << >> THEN "TRADE" ELSE "NO_TRADE"
    IN [action |-> action,
        primary_reason |-> IF action = "TRADE" THEN AllEntryFiltersPassed
                           ELSE rs[Len(rs)],
        reasons |-> rs,
        checks |-> cs]

\* compute_tradeable_signal lines 616-623
TradeableSignal(rs, cs) ==
    LET action == IF rs = << >> THEN "TRADE" ELSE "NO_TRADE"
    IN [action |-> action,
        primary_reason |-> IF action = "TRADE" THEN AllEntryFiltersPassed ELSE rs[1],
        reasons |-> rs,
        checks |-> cs]

\* The tradeable part and the checks of _build_unavailable_strategy
UnavailableSignal(reason) ==
    LET u == _build_unavailable_strategy(reason)
    IN [action |-> u.action, primary_reason |-> u.primary_reason,
        reasons |-> <<u.primary_reason>>, checks |-> << >>]

\* round(x, 1) of x = num / den >= 0, in tenths: nearest, ties to even
RoundHalfEven(num, den) ==
    LET q == num \div den
        r == num % den
    IN IF 2 * r < den THEN q
       ELSE IF 2 * r > den THEN q + 1
       ELSE IF q % 2 = 0 THEN q ELSE q + 1

Count(cs, P(_)) == Cardinality({i \in 1..Len(cs) : P(cs[i])})

\* Mutant of DecisionScore: max(0.0, ...) is missing.
DecisionScore_NoLowerClamp(passed_count, blocking_fail_count, soft_warn_count, action) ==
    LET total == passed_count + blocking_fail_count + soft_warn_count
        den == IF total > 0 THEN total ELSE 1
        base == IF total > 0 THEN passed_count * ScoreMax ELSE NeutralBaseline
        adjust == (IF action = "TRADE" THEN TradeBonus
                   ELSE IF action = "NO_TRADE" THEN 0 - NoTradePenalty ELSE 0)
                  - blocking_fail_count * BlockingFailPenalty
                  - soft_warn_count * SoftWarnPenalty
        num == base + adjust * den
    IN RoundHalfEven(10 * Min(ScoreMax * den, num), den)

\* Mutant of DecisionScore: min(100.0, ...) is missing.
DecisionScore_NoUpperClamp(passed_count, blocking_fail_count, soft_warn_count, action) ==
    LET total == passed_count + blocking_fail_count + soft_warn_count
        den == IF total > 0 THEN total ELSE 1
        base == IF total > 0 THEN passed_count * ScoreMax ELSE NeutralBaseline
        adjust == (IF action = "TRADE" THEN TradeBonus
                   ELSE IF action = "NO_TRADE" THEN 0 - NoTradePenalty ELSE 0)
                  - blocking_fail_count * BlockingFailPenalty
                  - soft_warn_count * SoftWarnPenalty
        num == base + adjust * den
    IN RoundHalfEven(10 * Max(ScoreMin * den, num), den)

\* _build_strategy_ui lines 233-241; the score is given in tenths of a point.
DecisionScore(passed_count, blocking_fail_count, soft_warn_count, action) ==
    LET total == passed_count + blocking_fail_count + soft_warn_count
        den == IF total > 0 THEN total ELSE 1
        base == IF total > 0 THEN passed_count * ScoreMax ELSE NeutralBaseline
        adjust == (IF action = "TRADE" THEN TradeBonus
                   ELSE IF action = "NO_TRADE" THEN 0 - NoTradePenalty ELSE 0)
                  - blocking_fail_count * BlockingFailPenalty
                  - soft_warn_count * SoftWarnPenalty
        \* score_base = num / den
        num == base + adjust * den
        clamped == Max(ScoreMin * den, Min(ScoreMax * den, num))
    IN RoundHalfEven(10 * clamped, den)

\* _build_strategy_ui lines 205-223: the timeline entry of the check met at
\* position `order` of enumerate(checks.items(), start=1)
TimelineEntry(order, c) ==
    [order |-> order, name |-> c.name, ok |-> c.ok, blocking |-> c.blocking,
     detail |-> c.detail,
     severity |-> IF c.ok THEN "pass" ELSE IF c.blocking THEN "blocker" ELSE "warning"]

\* Mutant of _build_strategy_ui: every failing check counts as a blocking
\* failure, an advisory one as a warning too.
_build_strategy_ui_FailuresCountedTwice(strat) ==
    LET timeline == [i \in 1..Len(strat.checks) |-> TimelineEntry(i, strat.checks[i])]
        passed_count == Count(timeline, LAMBDA c : c.ok)
        blocking_fail_count == Count(timeline, LAMBDA c : ~c.ok)
        soft_warn_count == Count(timeline, LAMBDA c : ~c.ok /\ ~c.blocking)
    IN [decision_score |-> DecisionScore(passed_count, blocking_fail_count,
                                         soft_warn_count, strat.action),
        blocking_fail_count |-> blocking_fail_count,
        soft_warn_count |-> soft_warn_count,
        passed_count |-> passed_count,
        total_checks |-> Len(timeline),
        action |-> strat.action,
        primary_reason |-> strat.primary_reason,
        timeline |-> timeline]

\* _build_strategy_ui lines 193-253
_build_strategy_ui(strat) ==
    LET timeline == [i \in 1..Len(strat.checks) |-> TimelineEntry(i, strat.checks[i])]
        passed_count == Count(timeline, LAMBDA c : c.ok)
        blocking_fail_count == Count(timeline, LAMBDA c : ~c.ok /\ c.blocking)
        soft_warn_count == Count(timeline, LAMBDA c : ~c.ok /\ ~c.blocking)
    IN [decision_score |-> DecisionScore(passed_count, blocking_fail_count,
                                         soft_warn_count, strat.action),
        blocking_fail_count |-> blocking_fail_count,
        soft_warn_count |-> soft_warn_count,
        passed_count |-> passed_count,
        total_checks |-> Len(timeline),
        action |-> strat.action,
        primary_reason |-> strat.primary_reason,
        timeline |-> timeline]

InitChecks ==
    /\ InitService
    /\ InitInput
    /\ InitLocks
    /\ InitGex
    /\ InitBuild
    /\ InitScore
    /\ pending \in CheckRuns
    /\ checks = << >>
    /\ reasons = << >>
    /\ strategy = Nil
    /\ strategy_ui = Nil

\* One add_check call of compute_tradeable_signal
AddCheck ==
    /\ strategy = Nil
    /\ pending # << >>
    /\ checks' = Append(checks, CheckEntry(Head(pending)))
    /\ reasons' = ReasonsAfter(reasons, Head(pending))
    /\ pending' = Tail(pending)
    /\ UNCHANGED <<strategy, strategy_ui, svc_vars, env_vars, call_vars, thread, gex_vars,
                   build_vars, score_vars,
                   input_vars, lock_vars>>

\* compute_tradeable_signal lines 616-623, build_dashboard_strategy lines 695-709
Conclude ==
    /\ strategy = Nil
    /\ pending = << >>
    /\ strategy' = TradeableSignal(reasons, checks)
    /\ UNCHANGED <<pending, checks, reasons, strategy_ui,
                   svc_vars, env_vars, call_vars, thread, gex_vars,
                   build_vars, score_vars,
                   input_vars, lock_vars>>

\* refresh_snapshot lines 362-367: build_dashboard_strategy raised
StrategyRaises ==
    /\ strategy = Nil
    /\ strategy' = UnavailableSignal("Strategy compute failed")
    /\ UNCHANGED <<pending, checks, reasons, strategy_ui,
                   svc_vars, env_vars, call_vars, thread, gex_vars,
                   build_vars, score_vars,
                   input_vars, lock_vars>>

\* _decorate_snapshot lines 255-267
Decorate ==
    /\ strategy # Nil
    /\ strategy_ui = Nil
    /\ strategy_ui' = _build_strategy_ui(strategy)
    /\ UNCHANGED <<pending, checks, reasons, strategy,
                   svc_vars, env_vars, call_vars, thread, gex_vars,
                   build_vars, score_vars,
                   input_vars, lock_vars>>

NextChecks ==
    \/ AddCheck
    \/ Conclude
    \/ StrategyRaises
    \/ Decorate

SpecChecks == InitChecks /\ [][NextChecks]_vars

\* --------------------------------------------------------------- GEX engine
\* A float is held exactly, as a decimal m * 10^e with m not divisible by 10
\* (0 is 0 * 10^0).
RECURSIVE Norm(_)
Norm(d) ==
    IF d.m = 0 THEN [m |-> 0, e |-> 0]
    ELSE IF d.m % 10 = 0 THEN Norm([m |-> d.m \div 10, e |-> d.e + 1])
    ELSE d
Dec(m, e) == Norm([m |-> m, e |-> e])
RECURSIVE Pow10(_)
Pow10(n) == IF n = 0 THEN 1 ELSE 10 * Pow10(n - 1)
DecMul(a, b) == Norm([m |-> a.m * b.m, e |-> a.e + b.e])
RECURSIVE DecPow(_, _)
DecPow(a, n) == IF n = 0 THEN [m |-> 1, e |-> 0] ELSE DecMul(a, DecPow(a, n - 1))
DecAdd(a, b) ==
    IF a.m = 0 THEN b
    ELSE IF b.m = 0 THEN a
    ELSE LET e == Min(a.e, b.e)
         IN Norm([m |-> a.m * Pow10(a.e - e) + b.m * Pow10(b.e - e), e |-> e])
DecNeg(a) == [m |-> 0 - a.m, e |-> a.e]
DecSub(a, b) == DecAdd(a, DecNeg(b))
DecAbs(a) == IF a.m < 0 THEN DecNeg(a) ELSE a
DecZero == [m |-> 0, e |-> 0]
Abs(x) == IF x < 0 THEN 0 - x ELSE x
RECURSIVE Digits(_)
Digits(n) == IF n < 10 THEN 1 ELSE 1 + Digits(n \div 10)
\* the power of ten above a decimal's magnitude
Order(a) == Digits(Abs(a.m)) + a.e
Sign(a) == IF a.m < 0 THEN 0 - 1 ELSE IF a.m = 0 THEN 0 ELSE 1
\* a < b: by sign, then by order of magnitude, then by the difference
DecLess(a, b) ==
    IF Sign(a) # Sign(b) THEN Sign(a) < Sign(b)
    ELSE IF Sign(a) = 0 THEN FALSE
    ELSE IF Order(a) # Order(b)
         THEN IF Sign(a) > 0 THEN Order(a) < Order(b) ELSE Order(b) < Order(a)
    ELSE DecSub(a, b).m < 0

\* A float64 sum of two non-negative terms.  A term below 2^-54 of the other
\* (5 * 10^-17 is below that) is lost in the rounding of the 53-bit
\* significand and the sum is the larger term; the other sums of the runs have
\* few enough digits to be exact.
FloatAdd(a, b) ==
    IF DecLess(DecMul(a, Dec(2, 16)), b) THEN b
    ELSE IF DecLess(DecMul(b, Dec(2, 16)), a) THEN a
    ELSE DecAdd(a, b)

\* An optional number: Python's None, or a value
Absent == << >>
Some(x) == <<x>>

\* Mutant of round: the result is rounded to a whole number.
round_ToWhole(number, ndigits) ==
    IF number.e >= 0 THEN number
    ELSE LET scale == Pow10(0 - number.e)
             q == Abs(number.m) \div scale
             r == Abs(number.m) % scale
             up == IF 2 * r > scale THEN q + 1
                   ELSE IF 2 * r < scale THEN q
                   ELSE IF q % 2 = 0 THEN q ELSE q + 1
         IN Dec(Sign(number) * up, 0)

\* round(number, ndigits): the nearest multiple of 10^-ndigits, a tie going to
\* the even one (the ties of the runs are exact in binary, so they are ties
\* for the float too)
round(number, ndigits) ==
    IF number.e >= 0 - ndigits THEN number
    ELSE LET scale == Pow10(0 - ndigits - number.e)
             q == Abs(number.m) \div scale
             r == Abs(number.m) % scale
             up == IF 2 * r > scale THEN q + 1
                   ELSE IF 2 * r < scale THEN q
                   ELSE IF q % 2 = 0 THEN q ELSE q + 1
         IN Dec(Sign(number) * up, 0 - ndigits)
\* round(x, 2) if x is not None else None
RoundOptional(x, ndigits) == IF x = Absent THEN Absent ELSE Some(round(x[1], ndigits))

\* ------------------------------------------------------------------ quotes
\* A JSON value of a quote field: a number, a numeric text, or something
\* float() refuses or _safe_float discards.
Number(n) == [t |-> "number", v |-> n]
NumericText(n) == [t |-> "numeric text", v |-> n]
Blanks ==
    {[t |-> "missing", v |-> 0], [t |-> "text", v |-> 0], [t |-> "nan", v |-> 0],
     [t |-> "inf", v |-> 0], Number(0), Number(0 - 1)}

\* _safe_float, lines 9-16
_safe_float(value, default) ==
    IF value.t \in {"number", "numeric text"} THEN value.v ELSE default

\* extract_quote_price line 39: the candidate fields, in the order of the scan
QuoteKeys == <<"lastPrice", "last", "mark", "closePrice", "bidPrice", "askPrice">>
KeySet == {QuoteKeys[i] : i \in 1..Len(QuoteKeys)}

\* A quote: whether it is a dict, its own fields, and the dicts found under
\* its "quote" key (none, or one).
NotAMapping == [mapping |-> FALSE, top |-> << >>, nested |-> << >>]
Mapping(top, nested) == [mapping |-> TRUE, top |-> <<top>>, nested |-> nested]

\* extract_quote_price lines 31-36
Buckets(quote) == IF quote.mapping THEN quote.top \o quote.nested ELSE << >>

\* extract_quote_price lines 38-43: the scan from field i of bucket b on
RECURSIVE ScanQuote(_, _, _)
ScanQuote(buckets, b, i) ==
    IF b > Len(buckets) THEN Absent
    ELSE IF i > Len(QuoteKeys) THEN ScanQuote(buckets, b + 1, 1)
    ELSE LET value == _safe_float(buckets[b][QuoteKeys[i]], 0)
         IN IF value > 0 THEN Some(value) ELSE ScanQuote(buckets, b, i + 1)

extract_quote_price_NestedFirst(quote) ==
    ScanQuote(IF quote.mapping THEN quote.nested \o quote.top ELSE << >>, 1, 1)
extract_quote_price(quote) == ScanQuote(Buckets(quote), 1, 1)

\* The quotes of the runs of extract_quote_price: every field is either a
\* positive price of its own (field i of the quote itself holds i, field i of
\* the nested dict 10 + i, as a number or a numeric text) or one and the same
\* blank.
PricedBucket(priced, base, blank, text) ==
    [k \in KeySet |->
        IF k \in priced
        THEN LET i == CHOOSE j \in 1..Len(QuoteKeys) : QuoteKeys[j] = k
             IN IF text THEN NumericText(base + i) ELSE Number(base + i)
        ELSE blank]
NestedBase == 10
Quotes ==
    {NotAMapping}
    \cup {Mapping(PricedBucket(p, 0, blank, text), << >>) :
              p \in SUBSET KeySet, blank \in Blanks, text \in BOOLEAN}
    \cup {Mapping(PricedBucket(p, 0, blank, FALSE),
                  <<PricedBucket(q, NestedBase, blank, FALSE)>>) :
              p \in SUBSET KeySet, q \in SUBSET KeySet, blank \in Blanks}

InitQuote ==
    /\ InitService
    /\ InitInput
    /\ InitLocks
    /\ InitPipeline
    /\ InitGex
    /\ InitScore
    /\ gex_previous = Nil
    /\ index_quote \in Quotes
    /\ quote_price = << >>
    /\ index_spot = << >>

\* extract_quote_price(index_quote), lines 30-43
ExtractQuotePrice ==
    /\ quote_price = << >>
    /\ quote_price' = <<extract_quote_price(index_quote)>>
    /\ UNCHANGED <<gex_previous, index_quote, index_spot,
                   pipe_vars, gex_vars, score_vars,
                   svc_vars, env_vars, call_vars, thread,
                   input_vars, lock_vars>>

\* build_dashboard_snapshot line 235: spot = extract_quote_price(...) or 0.0
BuildSpot ==
    /\ quote_price # << >>
    /\ index_spot = << >>
    /\ index_spot' = IF quote_price[1] = Absent THEN <<0>> ELSE quote_price[1]
    /\ UNCHANGED <<gex_previous, index_quote, quote_price,
                   pipe_vars, gex_vars, score_vars,
                   svc_vars, env_vars, call_vars, thread,
                   input_vars, lock_vars>>

NextQuote ==
    \/ ExtractQuotePrice
    \/ BuildSpot

SpecQuote == InitQuote /\ [][NextQuote]_vars

\* Contracts of the option chain, as flatten_option_chain yields them (the
\* fields _compute_gex reads); strike and gamma are decimals.
GammaValues == {Dec(0, 0), Dec(2, -3), Dec(-2, -3)}
OpenInterestValues == {0, 1000}
Sides == {"CALL", "PUT"}
Contracts(strikes) ==
    [side : Sides, strike : strikes, open_interest : OpenInterestValues,
     gamma : GammaValues]

\* The markets of the runs: an index quote and the strikes quoted around its
\* price; two of the quotes have no positive price.
LastPriceQuote(price) ==
    Mapping([k \in KeySet |-> IF k = "lastPrice" THEN Number(price)
                                                 ELSE [t |-> "missing", v |-> 0]],
            << >>)
Markets ==
    {[quote |-> LastPriceQuote(5000),
      strikes |-> {Dec(0, 0), Dec(4993, 0), Dec(4994, 0), Dec(5000, 0), Dec(5010, 0)}],
     [quote |-> LastPriceQuote(1), strikes |-> {Dec(0, 0), Dec(225, -2)}],
     [quote |-> LastPriceQuote(0), strikes |-> {Dec(0, 0), Dec(2, 0)}],
     [quote |-> NotAMapping, strikes |-> {Dec(0, 0), Dec(2, 0)}]}

SeqsUpTo(S, n) == UNION {[1..k -> S] : k \in 0..n}

\* dict lookups and updates; a dict is the sequence of its items in insertion
\* order.
DictHas(d, k) == \E i \in 1..Len(d) : d[i].k = k
DictGet(d, k) ==
    IF DictHas(d, k) THEN d[CHOOSE i \in 1..Len(d) : d[i].k = k].v ELSE DecZero
\* defaultdict(float): d[k] += x
DictAdd(d, k, x) ==
    IF DictHas(d, k)
    THEN [i \in 1..Len(d) |-> IF d[i].k = k THEN [k |-> k, v |-> DecAdd(d[i].v, x)]
                                             ELSE d[i]]
    ELSE Append(d, [k |-> k, v |-> DecAdd(DecZero, x)])

\* _compute_gex line 138: the rows that are skipped
Contributes_ZeroInterestCounts(row) ==
    ~(row.open_interest < 0 \/ row.gamma = DecZero \/ ~DecLess(DecZero, row.strike))
Contributes(row) ==
    ~(row.open_interest <= 0 \/ row.gamma = DecZero \/ ~DecLess(DecZero, row.strike))

\* _compute_gex line 141: raw = gamma * oi * 100 * (spot_price ** 2)
RawExposure_NoContractMultiplier(row, spot) ==
    DecMul(DecMul(row.gamma, Dec(row.open_interest, 0)), DecPow(Dec(spot, 0), 2))
RawExposure(row, spot) ==
    DecMul(DecMul(DecMul(row.gamma, Dec(row.open_interest, 0)),
                  Dec(ContractMultiplier, 0)),
           DecPow(Dec(spot, 0), 2))

\* _compute_gex lines 162-164, score(strike, gex) = gex / (distance_pct ** 5 +
\* 1e-12) with distance_pct = |strike - spot| / max(spot, 1).  Scores are only
\* compared, and only for gex > 0: score(s1, g1) > score(s2, g2) exactly when
\* g1 * D(s2) > g2 * D(s1), D(s) = |s - spot|^5 + 1e-12 * max(spot, 1)^5, the
\* denominator of line 164 scaled by max(spot, 1)^5.
ScoreDenominatorAt(distance, spot) ==
    FloatAdd(DecPow(distance, ScorePower),
             DecMul(Dec(1, -12), DecPow(Dec(Max(spot, 1), 0), ScorePower)))
ScoreDenominator(strike, spot) ==
    ScoreDenominatorAt(DecAbs(DecSub(strike, Dec(spot, 0))), spot)
ScoreGreater(x, y, spot) ==
    DecLess(DecMul(y.v, ScoreDenominator(x.k, spot)),
            DecMul(x.v, ScoreDenominator(y.k, spot)))

\* max(items, key=...): the first item no later item beats
ArgBest(items, Better(_, _)) ==
    LET best[i \in 1..Len(items)] ==
            IF i = 1 THEN items[1]
            ELSE IF Better(items[i], best[i - 1]) THEN items[i] ELSE best[i - 1]
    IN best[Len(items)]

\* _compute_gex lines 166-170
PinStrike_LargestExposure(by_strike, spot) ==
    LET positive_levels == SelectSeq(by_strike, LAMBDA x : DecLess(DecZero, x.v))
    IN IF positive_levels # << >>
       THEN ArgBest(positive_levels, LAMBDA x, y : DecLess(y.v, x.v)).k
       ELSE ArgBest(by_strike, LAMBDA x, y : DecLess(DecAbs(y.v), DecAbs(x.v))).k
PinStrike(by_strike, spot) ==
    LET positive_levels == SelectSeq(by_strike, LAMBDA x : DecLess(DecZero, x.v))
    IN IF positive_levels # << >>
       THEN ArgBest(positive_levels, LAMBDA x, y : ScoreGreater(x, y, spot)).k
       ELSE ArgBest(by_strike, LAMBDA x, y : DecLess(DecAbs(y.v), DecAbs(x.v))).k

\* _compute_gex lines 172-173
CallWall(call_by_strike) ==
    IF call_by_strike # << >>
    THEN Some(ArgBest(call_by_strike, LAMBDA x, y : DecLess(y.v, x.v)).k)
    ELSE Absent
PutWall_Max(put_by_strike) ==
    IF put_by_strike # << >>
    THEN Some(ArgBest(put_by_strike, LAMBDA x, y : DecLess(y.v, x.v)).k)
    ELSE Absent
PutWall(put_by_strike) ==
    IF put_by_strike # << >>
    THEN Some(ArgBest(put_by_strike, LAMBDA x, y : DecLess(x.v, y.v)).k)
    ELSE Absent

\* _compute_gex lines 175-181
DirectionBias_StrictBand(distance) ==
    IF DecLess(DecAbs(distance), Dec(PinBand, 0)) THEN "NEUTRAL_PIN"
    ELSE IF DecLess(DecZero, distance) THEN "BEARISH_PULLBACK"
    ELSE "BULLISH_REVERSION"
DirectionBias(distance) ==
    IF ~DecLess(Dec(PinBand, 0), DecAbs(distance)) THEN "NEUTRAL_PIN"
    ELSE IF DecLess(DecZero, distance) THEN "BEARISH_PULLBACK"
    ELSE "BULLISH_REVERSION"

\* sum(gex_by_strike.values())
RECURSIVE SumValues(_)
SumValues(d) == IF d = << >> THEN DecZero ELSE DecAdd(d[1].v, SumValues(Tail(d)))

\* sorted(items, key=abs(gex), reverse=True): stable, largest magnitude first
RECURSIVE InsertRanked(_, _)
InsertRanked(ranked, x) ==
    IF ranked = << >> THEN <<x>>
    ELSE IF DecLess(DecAbs(Head(ranked).v), DecAbs(x.v))
         THEN <<x>> \o ranked
         ELSE <<Head(ranked)>> \o InsertRanked(Tail(ranked), x)
RECURSIVE RankByMagnitude(_, _)
RankByMagnitude(d, ranked) ==
    IF d = << >> THEN ranked
    ELSE RankByMagnitude(Tail(d), InsertRanked(ranked, Head(d)))

\* _group_top_levels, lines 90-102
_group_top_levels(by_strike) ==
    LET ranked == RankByMagnitude(by_strike, << >>)
        top == SubSeq(ranked, 1, Min(TopLevels, Len(ranked)))
    IN [i \in 1..Len(top) |->
          [strike |-> round(top[i].k, ReportDigits), gex |-> top[i].v,
           side |-> IF DecLess(top[i].v, DecZero) THEN "NEGATIVE" ELSE "POSITIVE"]]

\* _compute_gex lines 149-193: the returned section
GexSection(by_strike, call_by_strike, put_by_strike, spot) ==
    IF by_strike = << >>
    THEN [pin |-> Absent, distance_to_pin |-> Absent, direction_bias |-> "UNKNOWN",
          net_gex |-> DecZero, call_wall |-> Absent, put_wall |-> Absent,
          top_levels |-> << >>]
    ELSE LET pin_strike == PinStrike(by_strike, spot)
             distance == DecSub(Dec(spot, 0), pin_strike)
         IN [pin |-> Some(round(pin_strike, ReportDigits)),
             distance_to_pin |-> Some(round(distance, ReportDigits)),
             direction_bias |-> DirectionBias(distance),
             net_gex |-> SumValues(by_strike),
             call_wall |-> RoundOptional(CallWall(call_by_strike), ReportDigits),
             put_wall |-> RoundOptional(PutWall(put_by_strike), ReportDigits),
             top_levels |-> _group_top_levels(by_strike)]

InitGexRun ==
    /\ InitService
    /\ InitInput
    /\ InitLocks
    /\ InitPipeline
    /\ InitScore
    /\ \E market \in Markets :
         /\ index_quote = market.quote
         /\ gex_rows \in SeqsUpTo(Contracts(market.strikes), MaxRows)
    /\ quote_price = << >>
    /\ index_spot = << >>
    /\ spot_price = 0
    /\ gex_cursor = 0
    /\ gex_by_strike = << >>
    /\ call_gex_by_strike = << >>
    /\ put_gex_by_strike = << >>
    /\ gex_result = Nil
    /\ gex_previous = Nil

\* build_dashboard_snapshot line 240: _compute_gex is called with the spot, or
\* with 1.0 when the spot is not positive (spot_price = 0: not called yet)
ComputeGexCalled ==
    /\ index_spot # << >>
    /\ spot_price = 0
    /\ spot_price' = IF index_spot[1] > 0 THEN index_spot[1] ELSE 1
    /\ UNCHANGED <<gex_rows, gex_cursor, gex_by_strike, call_gex_by_strike,
                   put_gex_by_strike, gex_result, build_vars,
                   pipe_vars, score_vars, svc_vars, env_vars, call_vars, thread,
                   input_vars, lock_vars>>

\* _compute_gex lines 134-147: one iteration of the loop
GexRow ==
    /\ spot_price # 0
    /\ gex_cursor < Len(gex_rows)
    /\ gex_cursor' = gex_cursor + 1
    /\ LET row == gex_rows[gex_cursor + 1]
           raw == RawExposure(row, spot_price)
       IN IF ~Contributes(row)
          THEN UNCHANGED <<gex_by_strike, call_gex_by_strike, put_gex_by_strike>>
          ELSE IF row.side = "CALL"
          THEN /\ gex_by_strike' = DictAdd(gex_by_strike, row.strike, raw)
               /\ call_gex_by_strike' = DictAdd(call_gex_by_strike, row.strike, raw)
               /\ UNCHANGED put_gex_by_strike
          ELSE /\ gex_by_strike' = DictAdd(gex_by_strike, row.strike, DecNeg(raw))
               /\ put_gex_by_strike' = DictAdd(put_gex_by_strike, row.strike, DecNeg(raw))
               /\ UNCHANGED call_gex_by_strike
    /\ UNCHANGED <<gex_rows, spot_price, gex_result, build_vars,
                   pipe_vars, score_vars, svc_vars, env_vars, call_vars, thread,
                   input_vars, lock_vars>>

\* _compute_gex lines 149-193: the loop is over, the section is returned
GexReturn ==
    /\ spot_price # 0
    /\ gex_cursor = Len(gex_rows)
    /\ gex_result = Nil
    /\ gex_result' = GexSection(gex_by_strike, call_gex_by_strike,
                                put_gex_by_strike, spot_price)
    /\ UNCHANGED <<gex_rows, spot_price, gex_cursor, gex_by_strike,
                   call_gex_by_strike, put_gex_by_strike, build_vars,
                   pipe_vars, score_vars, svc_vars, env_vars, call_vars, thread,
                   input_vars, lock_vars>>

\* _compute_gex lines 129-132: a second call with the same arguments; the
\* three dicts are locals, created anew by every call
GexAgain_TotalsKept ==
    /\ gex_result # Nil
    /\ gex_previous = Nil
    /\ gex_previous' = gex_result
    /\ gex_result' = Nil
    /\ gex_cursor' = 0
    /\ UNCHANGED <<gex_by_strike, call_gex_by_strike, put_gex_by_strike>>
    /\ UNCHANGED <<gex_rows, spot_price, index_quote, quote_price, index_spot,
                   pipe_vars, score_vars, svc_vars, env_vars, call_vars, thread,
                   input_vars, lock_vars>>
GexAgain ==
    /\ gex_result # Nil
    /\ gex_previous = Nil
    /\ gex_previous' = gex_result
    /\ gex_result' = Nil
    /\ gex_cursor' = 0
    /\ gex_by_strike' = << >>
    /\ call_gex_by_strike' = << >>
    /\ put_gex_by_strike' = << >>
    /\ UNCHANGED <<gex_rows, spot_price, index_quote, quote_price, index_spot,
                   pipe_vars, score_vars, svc_vars, env_vars, call_vars, thread,
                   input_vars, lock_vars>>

NextGex ==
    \/ ExtractQuotePrice
    \/ BuildSpot
    \/ ComputeGexCalled
    \/ GexRow
    \/ GexReturn
    \/ GexAgain

SpecGex == InitGexRun /\ [][NextGex]_vars

\* ------------------------------------------------------- the score of a strike
\* _compute_gex lines 162-164: score(strike, gex), as the ratio gex / D with D
\* the scaled denominator above
Distance(strike, spot) == DecAbs(DecSub(strike, Dec(spot, 0)))
score(strike, gex, spot) ==
    [num |-> gex, den |-> ScoreDenominatorAt(Distance(strike, spot), spot)]
\* a < b for two scores (the denominators are positive)
RatioLess(a, b) == DecLess(DecMul(a.num, b.den), DecMul(b.num, a.den))

\* The runs of score: a spot, strikes at and around it (one of them a cent or
\* less away) and a positive exposure; `near` is the strike nearer to the spot.
ScoreCases ==
    {[spot |-> 5000,
      strikes |-> {Dec(5000, 0), Dec(500001, -2), Dec(5001, 0), Dec(4990, 0),
                   Dec(5100, 0)},
      exposures |-> {Dec(5, 9), Dec(1, 10), Dec(15, 9)}],
     [spot |-> 1,
      strikes |-> {Dec(1, 0), Dec(1000001, -6), Dec(101, -2), Dec(9, -1)},
      exposures |-> {Dec(2, 2), Dec(4, 2), Dec(6, 2)}]}
ScoreArgs ==
    UNION {{a \in [spot : {c.spot}, gex : c.exposures,
                   near : c.strikes, far : c.strikes] :
                DecLess(Distance(a.near, a.spot), Distance(a.far, a.spot))} :
           c \in ScoreCases}

InitScoreRun ==
    /\ InitService
    /\ InitInput
    /\ InitLocks
    /\ InitPipeline
    /\ InitGex
    /\ InitBuild
    /\ score_args \in ScoreArgs
    /\ score_near = << >>
    /\ score_far = << >>

ScoreNear ==
    /\ score_near = << >>
    /\ score_near' = <<score(score_args.near, score_args.gex, score_args.spot)>>
    /\ UNCHANGED <<score_args, score_far, pipe_vars, gex_vars, build_vars,
                   svc_vars, env_vars, call_vars, thread,
                   input_vars, lock_vars>>

ScoreFar ==
    /\ score_far = << >>
    /\ score_far' = <<score(score_args.far, score_args.gex, score_args.spot)>>
    /\ UNCHANGED <<score_args, score_near, pipe_vars, gex_vars, build_vars,
                   svc_vars, env_vars, call_vars, thread,
                   input_vars, lock_vars>>

NextScore ==
    \/ ScoreNear
    \/ ScoreFar

SpecScore == InitScoreRun /\ [][NextScore]_vars

\* ------------------------------------------------- the check pipeline's run
\* engine.py lines 28-35
CUTOFF_HOUR == 13
ABSOLUTE_CUTOFF_HOUR == 15
VIX_FLOOR == 13
RSI_MIN == 40
RSI_MAX == 80
SKIP_FRIDAY == FALSE
MAX_CONSEC_DOWN_DAYS == 5
MAX_GAP_PCT == Dec(5, -1)
\* is_in_blackout_period lines 283 and 285
BlackoutBeforeHour == 10
BlackoutFromHour == 12
\* datetime.weekday(): Monday is 0, Friday 4, Saturday 5
Friday == 4
Saturday == 5
\* build_dashboard_strategy line 671 rounds the VIX to 2 places, line 676
\* the gap to 4
VixDigits == 2
GapDigits == 4

\* is_in_blackout_period(now_et), lines 282-287: <<in_blackout, reason>>
is_in_blackout_period(now_et) ==
    IF now_et.hour < BlackoutBeforeHour
    THEN <<TRUE, Some("Before 10:00 AM ET - early volatility blocked")>>
    ELSE IF now_et.hour >= BlackoutFromHour
    THEN <<TRUE, Some("After noon ET - low performance period blocked")>>
    ELSE <<FALSE, Absent>>

\* One add_check call: its arguments
CheckCall(name, ok, pass_detail, fail_detail, blocking) ==
    [name |-> name, ok |-> ok, blocking |-> blocking,
     pass_detail |-> pass_detail, fail_detail |-> fail_detail]

\* `x or default` on an optional string
OrElse(x, default) == IF x = Absent THEN default ELSE x[1]

\* Mutant of compute_core_signal: a missing index price is not looked at.
compute_core_signal_IndexNotRequired(pin_price, index_price, vix, setup) ==
    IF pin_price = Absent \/ vix = Absent
    THEN [available |-> FALSE, strategy |-> "UNAVAILABLE",
          reason |-> Some("Missing pin/index/VIX data for core signal"),
          description |-> Absent]
    ELSE [available |-> TRUE, strategy |-> setup.strategy, reason |-> Absent,
          description |-> Some(setup.description)]

\* compute_core_signal, lines 345-377; `setup` is what get_gex_trade_setup
\* answers for these prices
compute_core_signal(pin_price, index_price, vix, setup) ==
    IF pin_price = Absent \/ index_price = Absent \/ vix = Absent
    THEN [available |-> FALSE, strategy |-> "UNAVAILABLE",
          reason |-> Some("Missing pin/index/VIX data for core signal"),
          description |-> Absent]
    ELSE [available |-> TRUE, strategy |-> setup.strategy, reason |-> Absent,
          description |-> Some(setup.description)]

\* compute_expected_move_2hr, lines 338-342: None without both prices, else
\* the move, of which the pipeline looks at `>= min_expected_move` only
compute_expected_move_2hr(index_price, vix, move_ok) ==
    IF index_price = Absent \/ vix = Absent THEN Absent ELSE Some(move_ok)

\* compute_tradeable_signal lines 434-460
TimingChecks(now_et) ==
    <<CheckCall("market_open_day", now_et.weekday < Saturday,
                "Weekday session", "Weekend - no 0DTE trading", TRUE),
      CheckCall("entry_cutoff", now_et.hour < CUTOFF_HOUR,
                "Before 13:00 ET entry cutoff", "Past 13:00 ET entry cutoff", TRUE),
      CheckCall("absolute_cutoff", now_et.hour < ABSOLUTE_CUTOFF_HOUR,
                "Before 15:00 ET absolute cutoff",
                "In last hour before expiration (15:00 ET+)", TRUE),
      CheckCall("timing_blackout", ~is_in_blackout_period(now_et)[1],
                "Allowed entry window",
                OrElse(is_in_blackout_period(now_et)[2], "Blocked by timing blackout"),
                TRUE)>>

\* compute_tradeable_signal lines 462-490
VixChecks(vix, use_external_volatility_checks, vix_safe) ==
    IF vix = Absent
    THEN <<CheckCall("vix_available", FALSE, "VIX available", "VIX unavailable", TRUE)>>
    ELSE <<CheckCall("vix_available", TRUE, "VIX available", "VIX unavailable", TRUE),
           CheckCall("vix_floor", ~DecLess(vix[1], Dec(VIX_FLOOR, 0)),
                     "VIX >= floor", "VIX below floor", TRUE),
           IF use_external_volatility_checks
           THEN CheckCall("vix_spike", vix_safe, "No VIX spike detected",
                          "VIX spike detected", TRUE)
           ELSE CheckCall("vix_spike", TRUE,
                          "Skipped external VIX spike check (dashboard fast mode)",
                          "Skipped external VIX spike check (dashboard fast mode)",
                          FALSE)>>

\* Mutant of RealizedVolatilityCheck: the external check runs in fast mode too.
RealizedVolatilityCheck_AlwaysExternal(use_external_volatility_checks, rvol_ok) ==
    <<CheckCall("realized_volatility", rvol_ok, "Realized volatility acceptable",
                "Realized volatility too high", TRUE)>>

\* compute_tradeable_signal lines 492-507
RealizedVolatilityCheck(use_external_volatility_checks, rvol_ok) ==
    IF use_external_volatility_checks
    THEN <<CheckCall("realized_volatility", rvol_ok, "Realized volatility acceptable",
                     "Realized volatility too high", TRUE)>>
    ELSE <<CheckCall("realized_volatility", TRUE,
                     "Skipped external realized-volatility check (dashboard fast mode)",
                     "Skipped external realized-volatility check (dashboard fast mode)",
                     FALSE)>>

\* compute_tradeable_signal lines 509-571
MetricChecks(expected_move, rsi, consec_down, gap_pct, now_et) ==
    <<IF expected_move = Absent
      THEN CheckCall("expected_move", FALSE, "Expected move >= threshold",
                     "Expected move unavailable (missing spot/VIX)", TRUE)
      ELSE CheckCall("expected_move", expected_move[1],
                     "Expected move >= threshold", "Expected move < threshold", TRUE),
      IF rsi = Absent
      THEN CheckCall("rsi", FALSE, "RSI available", "RSI unavailable", TRUE)
      ELSE CheckCall("rsi", RSI_MIN <= rsi[1] /\ rsi[1] <= RSI_MAX,
                     "RSI in range 40-80", "RSI outside 40-80", TRUE),
      IF SKIP_FRIDAY
      THEN CheckCall("friday_policy", now_et.weekday # Friday,
                     "Friday policy satisfied", "Friday trading disabled by policy", TRUE)
      ELSE CheckCall("friday_policy", TRUE, "Friday trading allowed",
                     "Friday trading blocked", FALSE),
      CheckCall("consecutive_down_days", consec_down <= MAX_CONSEC_DOWN_DAYS,
                "consecutive down days <= 5", "consecutive down days > 5", TRUE),
      CheckCall("gap_size", ~DecLess(MAX_GAP_PCT, gap_pct),
                "Gap <= 0.50%", "Gap > 0.50%", TRUE)>>

\* compute_tradeable_signal lines 573-614
CoreChecks(pin_price, index_price, core_signal, proximity_ok) ==
    <<CheckCall("gex_pin", pin_price # Absent, "GEX pin available",
                "GEX pin unavailable (provide TRADIER_LIVE_KEY or --pin-override)",
                TRUE)>>
    \o (IF ~core_signal.available
        THEN <<CheckCall("core_signal", FALSE, "Core signal available",
                         OrElse(core_signal.reason, "Core signal unavailable"), TRUE)>>
        ELSE <<CheckCall("core_signal", TRUE, "Core signal available",
                         "Core signal unavailable", FALSE),
               IF core_signal.strategy = "SKIP"
               THEN CheckCall("core_strategy", FALSE, "Core strategy actionable",
                              OrElse(core_signal.description, "Core strategy is SKIP"),
                              TRUE)
               ELSE CheckCall("core_strategy", TRUE, "Core strategy actionable",
                              "Core strategy is SKIP", FALSE)>>)
    \o (IF index_price # Absent /\ core_signal.available /\ core_signal.strategy # "SKIP"
        THEN <<CheckCall("short_strike_proximity", proximity_ok,
                         "Short strike distance acceptable",
                         "Short strike too close to spot", TRUE)>>
        ELSE << >>)

\* compute_tradeable_signal lines 434-614: its add_check calls, in order
compute_tradeable_signal(now_et, market_snapshot, core_signal, use_external_volatility_checks, answers) ==
    TimingChecks(now_et)
    \o VixChecks(market_snapshot.vix, use_external_volatility_checks, answers.vix_safe)
    \o RealizedVolatilityCheck(use_external_volatility_checks, answers.rvol_ok)
    \o MetricChecks(market_snapshot.expected_move_2hr, market_snapshot.rsi,
                    market_snapshot.consecutive_down_days, market_snapshot.gap_pct,
                    now_et)
    \o CoreChecks(market_snapshot.pin_price, market_snapshot.index_price,
                  core_signal, answers.proximity_ok)

\* build_dashboard_strategy, lines 626-693: the add_check calls its run of
\* the pipeline makes
build_dashboard_strategy(input) ==
    LET market_snapshot ==
            [index_price |-> input.index_price,
             pin_price |-> input.pin_price,
             vix |-> RoundOptional(input.vix, VixDigits),
             rsi |-> input.metrics.rsi,
             consecutive_down_days |-> input.metrics.consecutive_down_days,
             gap_pct |-> round(input.metrics.gap_pct, GapDigits),
             expected_move_2hr |->
                 compute_expected_move_2hr(input.index_price, input.vix,
                                           input.answers.move_ok)]
        core_signal == compute_core_signal(input.pin_price, input.index_price,
                                           input.vix, input.answers.setup)
    IN compute_tradeable_signal(input.now_et, market_snapshot, core_signal,
                                ~input.fast_mode, input.answers)

\* What the pipeline is given. Prices: the snapshot's spot, pin and VIX, each
\* possibly None.
PriceInputs ==
    [index_price : {Absent, Some(Dec(5005, 0))},
     pin_price : {Absent, Some(Dec(5000, 0))},
     vix : {Absent, Some(Dec(12004, -3)), Some(Dec(18376, -3))}]
\* The clock: a Tuesday at 11, a Saturday at 11, a Friday at 14 (ET)
ClockInputs ==
    {[weekday |-> 1, hour |-> 11], [weekday |-> Saturday, hour |-> 11],
     [weekday |-> Friday, hour |-> 14]}
\* The extended metrics: the defaults of lines 655-657, adverse ones, no RSI
MetricInputs ==
    {[rsi |-> Some(50), consecutive_down_days |-> 0, gap_pct |-> DecZero],
     [rsi |-> Some(85), consecutive_down_days |-> 6, gap_pct |-> Dec(70001, -5)],
     [rsi |-> Absent, consecutive_down_days |-> 0, gap_pct |-> DecZero]}
\* What the collaborators answer: check_vix_spike, check_realized_volatility,
\* the comparison of the expected move with its threshold, get_gex_trade_setup
\* and _check_short_strike_proximity
AnswerInputs ==
    {[vix_safe |-> v, rvol_ok |-> v, move_ok |-> m, setup |-> s[1], proximity_ok |-> s[2]] :
        v \in BOOLEAN, m \in BOOLEAN,
        s \in {<<[strategy |-> "SKIP", description |-> "Too far from pin"], TRUE>>,
               <<[strategy |-> "IC", description |-> "Iron condor at pin"], TRUE>>,
               <<[strategy |-> "IC", description |-> "Iron condor at pin"], FALSE>>}}
SignalInputs ==
    {[index_price |-> p.index_price, pin_price |-> p.pin_price, vix |-> p.vix,
      now_et |-> c, metrics |-> m, answers |-> a, fast_mode |-> f] :
        p \in PriceInputs, c \in ClockInputs, m \in MetricInputs,
        a \in AnswerInputs, f \in BOOLEAN}

InitSignal ==
    /\ InitService
    /\ InitLocks
    /\ InitGex
    /\ InitBuild
    /\ InitScore
    /\ signal_input \in SignalInputs
    /\ pending = build_dashboard_strategy(signal_input)
    /\ checks = << >>
    /\ reasons = << >>
    /\ strategy = Nil
    /\ strategy_ui = Nil

SpecSignal == InitSignal /\ [][NextChecks]_vars

\* ------------------------------------------------------------ the two locks
\* The calls of the service seen from its locks only: self._lock, the state
\* mutex, and self._refresh_locks[key], the refresh slot of one key. A branch
\* on data is a choice; the positions and the lock operations are the code's.
LockOps == {"get_snapshot", "refresh_snapshot", "get_history", "health", "debug"}
rest_vars == <<svc_vars, env_vars, call_vars, thread, pipe_vars, gex_vars,
               build_vars, score_vars, input_vars>>

\* A call's standing: the method called, where it is, which `with self._lock`
\* block it is at, the local `snapshot` of get_snapshot (truthy or not),
\* whether it holds the refresh slot, whether the refresh was slow.
LockFrame(op, pc, section, snapshot, slot, slow) ==
    [op |-> op, pc |-> pc, section |-> section, snapshot |-> snapshot,
     slot |-> slot, slow |-> slow]
At(t, pc) == lock_frames[t] # Nil /\ lock_frames[t].pc = pc
InSection(t, sections) ==
    At(t, "locked") /\ state_mutex = t /\ lock_frames[t].section \in sections
\* The frame moved to the `with self._lock` statement of `section`
ToSection(f, section) == [f EXCEPT !.pc = "acquire", !.section = section]

\* A thread enters one of the five public methods (the request handlers of
\* dashboard_server.py lines 52-83 call four of them). refresh_snapshot starts with its upstream calls, every other
\* method with a `with self._lock` block.
LockCall(t, op) ==
    /\ lock_frames[t] = Nil
    /\ lock_calls < MaxLockCalls
    /\ lock_calls' = lock_calls + 1
    /\ lock_frames' = [lock_frames EXCEPT ![t] =
          IF op = "refresh_snapshot"
          THEN LockFrame(op, "upstream", "none", FALSE, FALSE, FALSE)
          ELSE LockFrame(op, "acquire", IF op = "get_snapshot" THEN "read" ELSE op,
                         FALSE, FALSE, FALSE)]
    /\ UNCHANGED <<state_mutex, slot_holder, lock_cached, rest_vars>>

\* `with self._lock:` is entered (lines 93, 406, 447, 457, 483, 493, 500,
\* 519); threading.Lock is not reentrant.
MutexAcquire(t) ==
    /\ At(t, "acquire")
    /\ state_mutex = None
    /\ state_mutex' = t
    /\ lock_frames' = [lock_frames EXCEPT ![t].pc = "locked"]
    /\ UNCHANGED <<slot_holder, lock_cached, lock_calls, rest_vars>>

\* Mutant of ReadSection: the slot is tried inside the `with` block.
ReadSection_SlotInsideMutex(t) ==
    /\ InSection(t, {"read"})
    /\ \E fresh \in BOOLEAN :
          IF lock_cached /\ fresh
          THEN /\ lock_frames' = [lock_frames EXCEPT ![t] = Nil]
               /\ state_mutex' = None
          ELSE /\ lock_frames' = [lock_frames EXCEPT ![t].pc = "try_slot",
                                                     ![t].snapshot = lock_cached]
               /\ state_mutex' = state_mutex
    /\ UNCHANGED <<slot_holder, lock_cached, lock_calls, rest_vars>>

\* get_snapshot lines 457-462: the cache is read; a fresh snapshot is
\* returned, else the body goes on to the slot, outside the block.
ReadSection(t) ==
    /\ InSection(t, {"read"})
    /\ state_mutex' = None
    /\ \E fresh \in BOOLEAN :
          lock_frames' = [lock_frames EXCEPT ![t] =
              IF lock_cached /\ fresh THEN Nil
              ELSE [@ EXCEPT !.pc = "try_slot", !.snapshot = lock_cached]]
    /\ UNCHANGED <<slot_holder, lock_cached, lock_calls, rest_vars>>

\* get_snapshot lines 464-481: refresh_lock.acquire(blocking=False); when it
\* fails, the stale copy is returned if there is a snapshot, else the timed
\* wait starts.
SlotTry(t) ==
    /\ At(t, "try_slot")
    /\ IF slot_holder = None
       THEN /\ slot_holder' = t
            /\ lock_frames' = [lock_frames EXCEPT ![t].pc = "upstream",
                                                  ![t].slot = TRUE]
       ELSE /\ slot_holder' = slot_holder
            /\ lock_frames' = [lock_frames EXCEPT ![t] =
                  IF @.snapshot THEN Nil ELSE [@ EXCEPT !.pc = "wait_slot"]]
    /\ UNCHANGED <<state_mutex, lock_cached, lock_calls, rest_vars>>

\* get_snapshot line 481: refresh_lock.acquire(timeout=...) gets the slot
SlotWait(t) ==
    /\ At(t, "wait_slot")
    /\ slot_holder = None
    /\ slot_holder' = t
    /\ lock_frames' = [lock_frames EXCEPT ![t].pc = "release_slot"]
    /\ UNCHANGED <<state_mutex, lock_cached, lock_calls, rest_vars>>

\* get_snapshot lines 481 and 488: the wait times out; the body is run
\* without the slot.
SlotTimeout(t) ==
    /\ At(t, "wait_slot")
    /\ slot_holder # None
    /\ lock_frames' = [lock_frames EXCEPT ![t].pc = "upstream"]
    /\ UNCHANGED <<state_mutex, slot_holder, lock_cached, lock_calls, rest_vars>>

\* get_snapshot lines 482-483: refresh_lock.release(), then the second block
SlotRelease(t) ==
    /\ At(t, "release_slot")
    /\ slot_holder' = None
    /\ lock_frames' = [lock_frames EXCEPT ![t] = ToSection(@, "reread")]
    /\ UNCHANGED <<state_mutex, lock_cached, lock_calls, rest_vars>>

\* get_snapshot lines 483-488: a snapshot stored meanwhile is returned, else
\* the body is run without the slot.
RereadSection(t) ==
    /\ InSection(t, {"reread"})
    /\ state_mutex' = None
    /\ lock_frames' = [lock_frames EXCEPT ![t] =
          IF lock_cached THEN Nil ELSE [@ EXCEPT !.pc = "upstream"]]
    /\ UNCHANGED <<slot_holder, lock_cached, lock_calls, rest_vars>>

\* The frame and the slot once refresh_snapshot is left: the `finally` of
\* get_snapshot line 468 releases the slot the call holds.
LeaveRefresh(t) ==
    /\ lock_frames' = [lock_frames EXCEPT ![t] = Nil]
    /\ slot_holder' = IF lock_frames[t].slot THEN None ELSE slot_holder

\* refresh_snapshot lines 339-391 and 413-444: the upstream calls and the
\* assembly of the snapshot, ok or failed; any other exception leaves the
\* method.
UpstreamIO(t) ==
    /\ At(t, "upstream")
    /\ \E outcome \in {"ok", "slow", "SchwabClientError", "raise"} :
          IF outcome = "raise"
          THEN LeaveRefresh(t)
          ELSE /\ slot_holder' = slot_holder
               /\ lock_frames' = [lock_frames EXCEPT ![t] =
                     IF outcome = "SchwabClientError"
                     THEN ToSection(@, "event_failed")
                     ELSE ToSection([@ EXCEPT !.slow = (outcome = "slow")], "event_ok")]
    /\ UNCHANGED <<state_mutex, lock_cached, lock_calls, rest_vars>>

\* _append_event lines 93-96, called at lines 392, 405 and 446
EventSection(t) ==
    /\ InSection(t, {"event_ok", "event_slow", "event_failed"})
    /\ state_mutex' = None
    /\ lock_frames' = [lock_frames EXCEPT ![t] =
          IF @.section = "event_failed" THEN ToSection(@, "store_failed")
          ELSE IF @.section = "event_ok" /\ @.slow THEN ToSection(@, "event_slow")
          ELSE ToSection(@, "store_ok")]
    /\ UNCHANGED <<slot_holder, lock_cached, lock_calls, rest_vars>>

\* refresh_snapshot lines 406-411 and 447-453: the snapshot is stored; the
\* failure path returns, the other goes on to the history file.
StoreSection(t) ==
    /\ InSection(t, {"store_ok", "store_failed"})
    /\ state_mutex' = None
    /\ lock_cached' = TRUE
    /\ IF lock_frames[t].section = "store_failed"
       THEN LeaveRefresh(t)
       ELSE /\ slot_holder' = slot_holder
            /\ lock_frames' = [lock_frames EXCEPT ![t].pc = "write_history"]
    /\ UNCHANGED <<lock_calls, rest_vars>>

\* refresh_snapshot lines 412-413: _write_history, file I/O, then the return
HistoryWrite(t) ==
    /\ At(t, "write_history")
    /\ LeaveRefresh(t)
    /\ UNCHANGED <<state_mutex, lock_cached, lock_calls, rest_vars>>

\* get_history lines 493-497, health lines 500-515, debug lines 519-561
QuerySection(t) ==
    /\ InSection(t, {"get_history", "health", "debug"})
    /\ state_mutex' = None
    /\ lock_frames' = [lock_frames EXCEPT ![t] = Nil]
    /\ UNCHANGED <<slot_holder, lock_cached, lock_calls, rest_vars>>

\* The next step of the call thread t is in
LockStep(t) ==
    \/ MutexAcquire(t)
    \/ ReadSection(t)
    \/ SlotTry(t)
    \/ SlotWait(t)
    \/ SlotTimeout(t)
    \/ SlotRelease(t)
    \/ RereadSection(t)
    \/ UpstreamIO(t)
    \/ EventSection(t)
    \/ StoreSection(t)
    \/ HistoryWrite(t)
    \/ QuerySection(t)

NextLocks ==
    \/ \E t \in Threads, op \in LockOps : LockCall(t, op)
    \/ \E t \in Threads : LockStep(t)

SpecLocks == Init /\ [][NextLocks]_vars

\* ------------------------------------------------------------ observations
InRefreshBody(t) == thread[t].pc \in RefreshBodyPcs
Done(t) == thread[t].pc = "done"
\* The call of t ran a refresh of its own to the end and returns its snapshot.
RefreshedItself(t) ==
    /\ thread[t].pc \in {"gs_release", "done"}
    /\ thread[t].refreshes >= 1
    /\ thread[t].result # Nil
Occurrences(seq, x) == Cardinality({i \in 1..Len(seq) : seq[i] = x})
\* Lines of the durable log of key k, over all its day files, that hold x
DurableOccurrences(k, x) ==
    Cardinality(UNION {{<<q, i>> : i \in {j \in 1..Len(durable_log[q]) : durable_log[q][j] = x}} :
                       q \in {p \in DOMAIN durable_log : p[1] = k}})
Last(seq) == seq[Len(seq)]
IsUnavailable(snap) ==
    /\ snap.spot = None /\ snap.vix = None /\ snap.pin = None
    /\ snap.direction_bias = "UNKNOWN"
    /\ snap.strategy.action = "NO_TRADE"
    /\ snap.system.error # None
IsMarkedStale(snap) ==
    /\ "stale" \in DOMAIN snap.system
    /\ snap.system.stale = TRUE
    /\ snap.system.stale_reason = "refresh_in_progress"

\* -------------------------------------------------------------------- claims

\* C1: for every key, at most one thread is executing the refresh body
\* (refresh_snapshot for that key) at any instant.
C1_SingleRefreshBody ==
    \A k \in Keys :
        Cardinality({t \in Threads : InRefreshBody(t) /\ thread[t].index_code = k}) <= 1

\* C2: of the get_snapshot calls that found the same stale cached snapshot of a
\* key (calls that overlap: each read the cache before the other replaced it),
\* at most one issues an upstream round; so no two of them both complete a
\* refresh of their own.
C2_OneUpstreamRoundPerStaleKey ==
    \A t1, t2 \in Threads :
        ( /\ t1 # t2
          /\ thread[t1].index_code = thread[t2].index_code
          /\ thread[t1].snapshot # Nil
          /\ thread[t1].snapshot = thread[t2].snapshot )
        => ~(RefreshedItself(t1) /\ RefreshedItself(t2))

\* C3: a get_snapshot caller that fails to acquire the slot without blocking
\* while it holds a previously cached snapshot returns in that very step: no
\* wait, no upstream call, no exception, no change of the shared state, and the
\* value is that snapshot with system.stale = true and
\* system.stale_reason = "refresh_in_progress" added and nothing else changed.
C3_StaleCopyAtOnce ==
    [][ \A t \in Threads :
          ( /\ thread[t].pc = "gs_try"
            /\ thread'[t] # thread[t]
            /\ refresh_locks[thread[t].index_code]
            /\ thread[t].snapshot # Nil )
          => /\ thread'[t].pc = "done"
             /\ thread'[t].raised = None
             /\ thread'[t].upstream_calls = 0
             /\ thread'[t].refreshes = 0
             /\ IsMarkedStale(thread'[t].result)
             /\ thread'[t].result.system.error = thread[t].snapshot.system.error
             /\ thread'[t].result.system.source = thread[t].snapshot.system.source
             /\ thread'[t].result.system.refresh_seconds
                    = thread[t].snapshot.system.refresh_seconds
             /\ [thread'[t].result EXCEPT !.system = thread[t].snapshot.system]
                    = thread[t].snapshot
             /\ UNCHANGED <<svc_vars, env_vars>> ]_vars

C3_Witness ==
    \E t \in Threads :
        /\ Done(t)
        /\ thread[t].result # Nil
        /\ IsMarkedStale(thread[t].result)
        /\ thread[t].upstream_calls = 0
        /\ \E u \in Threads : InRefreshBody(u) /\ thread[u].holds

\* C4: a get_snapshot call that finds a cached snapshot younger than the
\* refresh interval returns that snapshot, issues no upstream call, and leaves
\* SnapshotState, history, the refresh slots and the durable log unchanged.
C4_FreshReturnsCached ==
    [][ \A k \in Keys :
          ( /\ calls' = calls + 1
            /\ \E t \in Threads : FirstFree(t) /\ thread'[t].index_code = k
            /\ k \in DOMAIN states
            /\ clock - states[k].updated_at_epoch < refresh_seconds )
          => \E t \in Threads :
               /\ FirstFree(t)
               /\ thread'[t].pc = "done"
               /\ thread'[t].result = states[k].snapshot
               /\ thread'[t].raised = None
               /\ thread'[t].upstream_calls = 0
               /\ thread'[t].refreshes = 0
               /\ UNCHANGED <<svc_vars, env_vars>> ]_vars

C4_Witness ==
    \E t \in Threads :
        /\ Done(t)
        /\ thread[t].refreshes = 0
        /\ thread[t].index_code \in DOMAIN states
        /\ thread[t].result = states[thread[t].index_code].snapshot
        /\ clock - states[thread[t].index_code].updated_at_epoch > 0
        /\ clock - states[thread[t].index_code].updated_at_epoch < refresh_seconds

\* C5: when the refresh of a call ends after an upstream call failed, the
\* key's SnapshotState holds a well-formed 'unavailable' snapshot and a
\* last_error, and the call no longer holds the slot once it has returned; a
\* later get_snapshot within the refresh interval returns the cached snapshot
\* without an upstream call.
C5_FailureIsCached ==
    \A t \in Threads :
        ( /\ Done(t)
          /\ thread[t].refreshes >= 1
          /\ (thread[t].raised # None \/ thread[t].result.system.error # None) )
        => /\ thread[t].index_code \in DOMAIN states
           /\ \E i \in 1..Len(GetList(history_cache, thread[t].index_code)) :
                /\ IsUnavailable(history_cache[thread[t].index_code][i])
                /\ thread[t].result = history_cache[thread[t].index_code][i]
           /\ ~thread[t].holds

\* C6: whatever the upstream calls of a refresh do, a finished get_snapshot
\* call has returned a snapshot and has raised nothing.
C6_NeverRaises ==
    \A t \in Threads :
        Done(t) => thread[t].raised = None /\ thread[t].result # Nil

\* C7: when build_dashboard_strategy raises in a refresh whose upstream calls
\* succeeded, the refresh still returns a snapshot: its strategy block is the
\* synthetic unavailable one (core.available = false, action NO_TRADE, no
\* checks), system.error is None, nothing is raised, and the snapshot replaces
\* SnapshotState with last_error = None and is appended to the history.
C7_StrategyFailureIsContained ==
    /\ [](\A t \in Threads :
            ( /\ thread[t].strategy_failed
              /\ thread[t].pc \in {"rs_warn", "rs_store", "rs_write", "gs_release", "done"} )
            => LET snap == IF thread[t].pc \in {"gs_release", "done"}
                           THEN thread[t].result ELSE thread[t].built
               IN /\ snap # Nil
                  /\ thread[t].raised = None
                  /\ snap.strategy.core_available = FALSE
                  /\ snap.strategy.action = "NO_TRADE"
                  /\ snap.strategy.checks = {}
                  /\ snap.system.error = None
                  /\ thread[t].pc \in {"rs_write", "gs_release", "done"}
                       => Occurrences(GetList(history_cache, thread[t].index_code), snap) = 1)
    /\ [][ \A t \in Threads :
             ( /\ thread[t].pc = "rs_store"
               /\ thread'[t].pc = "rs_write"
               /\ thread[t].strategy_failed )
             => /\ states'[thread[t].index_code].snapshot = thread[t].built
                /\ states'[thread[t].index_code].last_error = None
                /\ Last(history_cache'[thread[t].index_code]) = thread[t].built ]_vars

C7_Witness ==
    \E t \in Threads :
        /\ Done(t)
        /\ thread[t].strategy_failed
        /\ thread[t].result # Nil
        /\ thread[t].result.strategy.core_available = FALSE
        /\ states[thread[t].index_code].snapshot = thread[t].result

\* C8: the snapshot of every refresh that completed, whether its upstream
\* calls succeeded or failed, is exactly once in the key's in-memory history and
\* on exactly one line of the key's durable log.
C8_OneHistoryEntryOneLogLine ==
    \A t \in Threads :
        ( /\ RefreshedItself(t)
          /\ Len(GetList(history_cache, thread[t].index_code)) < 500 )
        => /\ Occurrences(GetList(history_cache, thread[t].index_code), thread[t].result) = 1
           /\ DurableOccurrences(thread[t].index_code, thread[t].result) = 1

\* C9: the in-memory history of a key never holds more than 500 snapshots, and
\* after n appends it holds the min(n, 500) most recent ones in the order of
\* their appends (with 501 appends: the 2nd to the 501st).
C9_HistoryBounded ==
    \A k \in DOMAIN history_cache :
        LET h == history_cache[k]
            n == next_id - 1
        IN /\ Len(h) <= 500
           /\ Len(h) = IF n < 500 THEN n ELSE 500
           /\ \A i \in 1..Len(h) : h[i].id = n - Len(h) + i

C9_Witness ==
    /\ HistKey \in DOMAIN history_cache
    /\ next_id - 1 = 501
    /\ Len(history_cache[HistKey]) = 500
    /\ history_cache[HistKey][1].id = 2
    /\ history_cache[HistKey][500].id = 501

\* C10: get_history(key, limit) returns the min(L, n) most recently appended
\* snapshots of the key's history, most recent first, L being limit clamped to
\* [1, 1000] and n the history length; the empty list when the key has no
\* history; and it leaves the history unchanged.
C10_GetHistoryMostRecentFirst ==
    [][ history_limit' # << >> =>
          LET h == GetList(history_cache, HistKey)
              n == Len(h)
              limit == history_limit'[1]
              L == IF limit < 1 THEN 1 ELSE IF limit > 1000 THEN 1000 ELSE limit
              r == history_result'
          IN /\ Len(r) = IF L < n THEN L ELSE n
             /\ \A i \in 1..Len(r) : r[i] = h[n + 1 - i]
             /\ (HistKey \notin DOMAIN history_cache => r = << >>)
             /\ history_cache' = history_cache ]_vars

C10_Witness ==
    /\ history_limit = <<2>>
    /\ Len(GetList(history_cache, HistKey)) = 3
    /\ Len(history_result) = 2
    /\ history_result[1].id = 3
    /\ history_result[2].id = 2

\* C11: for each key the in-memory history lists the snapshots in the order in
\* which they replaced SnapshotState: every replacement of SnapshotState
\* appends the new snapshot at the end of the history in the same step, the
\* history changes in no other way, and so its last entry is always the
\* snapshot SnapshotState holds, whichever refresh was started or built first.
C11_HistoryInCompletionOrder ==
    /\ [](\A k \in DOMAIN states :
            /\ k \in DOMAIN history_cache
            /\ Len(history_cache[k]) >= 1
            /\ Last(history_cache[k]) = states[k].snapshot)
    /\ [][ \A k \in Keys :
             LET h == GetList(history_cache, k)
                 h2 == GetList(history_cache', k)
             IN /\ (Get(states', k) # Get(states, k) /\ Len(h) < HistoryCapacity)
                     => h2 = Append(h, states'[k].snapshot)
                /\ h2 # h => Get(states', k) # Get(states, k) ]_vars

\* Two refreshes of a key overlapped and the one that built its snapshot later
\* stored it first.
C11_Witness ==
    \E k \in DOMAIN history_cache :
        /\ Len(history_cache[k]) >= 2
        /\ \E i \in 1..(Len(history_cache[k]) - 1) :
             history_cache[k][i].id > history_cache[k][i + 1].id
        /\ Last(history_cache[k]) = states[k].snapshot

\* C12: a get_snapshot caller that found no cached snapshot and could not
\* acquire the slot waits on the slot for at most the refresh interval: it
\* gets the slot only within that interval, and gives up only once the interval
\* has passed.  When it got the slot and a snapshot now exists, it returns that
\* snapshot without an upstream call and without changing the service;
\* otherwise it enters a refresh of its own.  A call that found no cached
\* snapshot never returns without one.
C12_WaiterGetsSnapshot ==
    /\ [](\A t \in Threads :
            (Done(t) /\ thread[t].raised = None) => thread[t].result # Nil)
    /\ [][ \A t \in Threads :
             LET f == thread[t]
                 g == thread'[t]
                 state == Get(states, f.index_code)
             IN /\ (f.pc = "gs_wait" /\ g # f)
                     => /\ f.snapshot = Nil
                        /\ g.pc \in {"gs_wait_release", "rs_quotes"}
                        /\ g.pc = "gs_wait_release"
                             => /\ clock - f.wait_since <= refresh_seconds
                                /\ ~refresh_locks[f.index_code]
                        /\ g.pc = "rs_quotes"
                             => /\ clock - f.wait_since >= refresh_seconds
                                /\ g.refreshes = 1
                /\ (f.pc = "gs_recheck" /\ g # f)
                     => IF state # Nil /\ state.snapshot # Nil
                        THEN /\ g.pc = "done"
                             /\ g.result = state.snapshot
                             /\ g.raised = None
                             /\ g.upstream_calls = 0
                             /\ g.refreshes = 0
                             /\ UNCHANGED <<svc_vars, env_vars>>
                        ELSE /\ g.pc = "rs_quotes"
                             /\ g.refreshes = 1 ]_vars

\* A caller that found no snapshot waited, got the slot, and returned the
\* snapshot another caller's refresh had stored meanwhile.
C12_Witness ==
    \E t \in Threads :
        /\ Done(t)
        /\ thread[t].snapshot = Nil
        /\ thread[t].refreshes = 0
        /\ thread[t].upstream_calls = 0
        /\ thread[t].result # Nil
        /\ thread[t].result = states[thread[t].index_code].snapshot

\* C13: a single get_snapshot call executes the refresh body at most once (so
\* it issues get_quotes at most once), and a call whose refresh failed returns
\* the 'unavailable' snapshot that the refresh cached.
C13_NoRetryInOneCall ==
    \A t \in Threads :
        /\ thread[t].refreshes <= 1
        /\ ( /\ Done(t)
             /\ thread[t].refreshes = 1
             /\ (thread[t].raised # None \/ thread[t].result.system.error # None) )
           => /\ thread[t].raised = None
              /\ IsUnavailable(thread[t].result)
              /\ Occurrences(GetList(history_cache, thread[t].index_code),
                             thread[t].result) = 1

\* A run of compute_tradeable_signal that concluded (lines 616-623): the
\* strategy holds the verdict over the checks evaluated.
Concluded ==
    /\ strategy # Nil
    /\ pending = << >>
    /\ strategy.checks = checks
    /\ strategy.reasons = reasons
BlockingFailures(cs) == {i \in 1..Len(cs) : cs[i].blocking /\ ~cs[i].ok}
AdvisoryFailures(cs) == {i \in 1..Len(cs) : ~cs[i].blocking /\ ~cs[i].ok}
ActionValues == {"TRADE", "NO_TRADE", "HOLD"}

\* C14: for any sequence of evaluated checks the action is NO_TRADE if and
\* only if at least one blocking check failed (TRADE otherwise); every check,
\* a failing advisory one included, is recorded in the check list, and only a
\* failing blocking check adds a reason.
C14_BlockingFailureVetoes ==
    /\ [](Concluded =>
            /\ strategy.action \in {"TRADE", "NO_TRADE"}
            /\ strategy.action = "NO_TRADE" <=> BlockingFailures(checks) # {}
            /\ Len(strategy.reasons) = Cardinality(BlockingFailures(checks)))
    /\ [][ pending' # pending =>
             LET c == Head(pending)
             IN /\ Len(checks') = Len(checks) + 1
                /\ Last(checks').name = c.name
                /\ Last(checks').ok = c.ok
                /\ Last(checks').blocking = c.blocking
                /\ (c.ok \/ ~c.blocking) => reasons' = reasons
                /\ (~c.ok /\ c.blocking) => reasons' = Append(reasons, c.fail_detail) ]_vars

\* The verdict is TRADE although an advisory check failed, and the failure is
\* in the check list.
C14_Witness ==
    /\ Concluded
    /\ strategy.action = "TRADE"
    /\ AdvisoryFailures(strategy.checks) # {}
    /\ strategy.reasons = << >>

\* C15: primary_reason is the failure detail of the first blocking check that
\* failed, in evaluation order, when any blocking check failed, and the fixed
\* message "All entry filters passed" otherwise.
C15_PrimaryReasonIsFirstBlockingFailure ==
    Concluded =>
        LET F == BlockingFailures(checks)
        IN IF F = {}
           THEN strategy.primary_reason = "All entry filters passed"
           ELSE LET first == CHOOSE i \in F : \A j \in F : i <= j
                IN /\ strategy.primary_reason = checks[first].detail
                   /\ strategy.primary_reason = FailDetail(checks[first].name)

\* Two blocking checks failed after an advisory one failed; the first blocking
\* failure is the primary reason.
C15_Witness ==
    /\ Concluded
    /\ Cardinality(BlockingFailures(checks)) >= 2
    /\ \E i \in AdvisoryFailures(checks) : \A j \in BlockingFailures(checks) : i < j
    /\ strategy.primary_reason = "VIX spike detected"

\* C16: the decision score of a decorated snapshot (every snapshot is
\* decorated before it is stored in SnapshotState and history) lies in
\* [0, 100], and so does the score of every combination of passed,
\* blocking-failed and advisory-failed counts and action value.  Scores are in
\* tenths.
C16_ScoreInRange ==
    /\ strategy_ui # Nil =>
          /\ strategy_ui.decision_score >= 0
          /\ strategy_ui.decision_score <= 1000
    /\ \A p, b, w \in 0..MaxChecks : \A a \in ActionValues :
          /\ DecisionScore(p, b, w, a) >= 0
          /\ DecisionScore(p, b, w, a) <= 1000

\* Every check of the run failed as a blocking check: the raw value is
\* negative and the score is 0.
C16_Witness ==
    /\ strategy_ui # Nil
    /\ strategy_ui.total_checks >= 2
    /\ strategy_ui.blocking_fail_count = strategy_ui.total_checks
    /\ strategy_ui.decision_score = 0

\* C17: with an empty check list the decision score is the neutral baseline,
\* 45.0 (450 tenths).
C17_EmptyCheckListScoresBaseline ==
    (strategy_ui # Nil /\ strategy_ui.total_checks = 0)
        => strategy_ui.decision_score = 450

\* C18: with at least one check, all checks passing and action TRADE, the
\* decision score is exactly 100 (1000 tenths): the raw value, 100 plus the
\* TRADE bonus, is clamped.
C18_AllPassTradeScores100 ==
    /\ ( /\ strategy_ui # Nil
         /\ strategy_ui.total_checks >= 1
         /\ strategy_ui.passed_count = strategy_ui.total_checks
         /\ strategy_ui.action = "TRADE" )
       => strategy_ui.decision_score = 1000
    /\ \A p \in 1..(MaxChecks + 1) : DecisionScore(p, 0, 0, "TRADE") = 1000

C18_Witness ==
    /\ strategy_ui # Nil
    /\ strategy_ui.total_checks >= 2
    /\ strategy_ui.passed_count = strategy_ui.total_checks
    /\ strategy_ui.action = "TRADE"
    /\ strategy_ui.decision_score = 1000
    /\ Concluded

GexReturned == gex_result # Nil

\* C19: when every contract of the chain has open interest 0, or the chain is
\* empty, the computed section has no pin, bias UNKNOWN, no call or put wall,
\* net exposure 0 and no top levels, whatever the spot price.
C19_NoOpenInterestIsNeutral ==
    (GexReturned /\ \A i \in 1..Len(gex_rows) : gex_rows[i].open_interest = 0)
        => /\ gex_result.pin = Absent
           /\ gex_result.direction_bias = "UNKNOWN"
           /\ gex_result.call_wall = Absent
           /\ gex_result.put_wall = Absent
           /\ gex_result.net_gex = DecZero
           /\ gex_result.top_levels = << >>

C19_Witness ==
    /\ GexReturned
    /\ spot_price = 5000
    /\ Len(gex_rows) >= 2
    /\ \A i \in 1..Len(gex_rows) :
         /\ gex_rows[i].open_interest = 0
         /\ gex_rows[i].gamma # DecZero
         /\ gex_rows[i].strike # DecZero
    /\ gex_result.pin = Absent

\* The exposure the first n rows give the strikes of a set: gamma * open
\* interest * 100 * spot^2 of each row with open interest > 0, gamma # 0 and
\* strike > 0, added for a CALL and subtracted for a PUT.
RECURSIVE ContributionTotal(_, _, _, _)
ContributionTotal(rows, n, strikes, spot) ==
    IF n = 0 THEN DecZero
    ELSE LET row == rows[n]
             amount == DecMul(DecMul(DecMul(row.gamma, Dec(row.open_interest, 0)),
                                     Dec(100, 0)),
                              Dec(spot * spot, 0))
             rest == ContributionTotal(rows, n - 1, strikes, spot)
         IN IF row.strike \in strikes /\ row.open_interest > 0
               /\ row.gamma # DecZero /\ row.strike.m > 0
            THEN IF row.side = "CALL" THEN DecAdd(rest, amount)
                 ELSE DecSub(rest, amount)
            ELSE rest

RowStrikes == {gex_rows[i].strike : i \in 1..Len(gex_rows)}

ContributionRule ==
    /\ \A k \in RowStrikes :
         DictGet(gex_by_strike, k)
             = ContributionTotal(gex_rows, gex_cursor, {k}, spot_price)
    /\ \A i \in 1..Len(gex_by_strike) :
         \E j \in 1..gex_cursor :
             gex_rows[j].strike = gex_by_strike[i].k /\ Contributes(gex_rows[j])
    /\ GexReturned
         => gex_result.net_gex
                = ContributionTotal(gex_rows, Len(gex_rows), RowStrikes, spot_price)

SingleCallScenario ==
    /\ spot_price = 5000
    /\ gex_rows = <<[side |-> "CALL", strike |-> Dec(5000, 0),
                     open_interest |-> 1000, gamma |-> Dec(2, -3)]>>
    /\ GexReturned

\* C20 (amended): only contracts with open interest > 0, gamma # 0 and strike
\* > 0 contribute; each contributes gamma * open interest * 100 * spot^2 to its
\* strike's total, added for a CALL and subtracted for a PUT, and the net
\* exposure is the sum of the strike totals.  A single CALL at strike 5000 with
\* open interest 1000 and gamma 0.002 at spot 5000 gives pin 5000, net exposure
\* 5.0e9 and bias NEUTRAL_PIN.
C20_ContributionRule ==
    /\ ContributionRule
    /\ SingleCallScenario
         => /\ gex_result.pin = Some(Dec(5000, 0))
            /\ gex_result.net_gex = Dec(5, 9)
            /\ gex_result.direction_bias = "NEUTRAL_PIN"

C20_Witness ==
    /\ SingleCallScenario
    /\ gex_by_strike = <<[k |-> Dec(5000, 0), v |-> Dec(5, 9)]>>
    /\ gex_result.net_gex = Dec(5, 9)

\* C20 as stated: the same rule, with the single CALL giving net exposure
\* 5.0e11.
C20_AsStated ==
    /\ ContributionRule
    /\ SingleCallScenario
         => /\ gex_result.pin = Some(Dec(5000, 0))
            /\ gex_result.net_gex = Dec(5, 11)
            /\ gex_result.direction_bias = "NEUTRAL_PIN"

PositiveStrikes == {gex_by_strike[i].k : i \in {j \in 1..Len(gex_by_strike) :
                                                 DecLess(DecZero, gex_by_strike[j].v)}}
ExposedStrikes == {gex_by_strike[i].k : i \in 1..Len(gex_by_strike)}
Level(k) == [k |-> k, v |-> DictGet(gex_by_strike, k)]

C23_BiasThresholds ==
    GexReturned
        => LET bias == gex_result.direction_bias
           IN /\ (bias = "UNKNOWN") <=> (gex_result.pin = Absent)
              /\ gex_result.pin # Absent
                   => LET distance == DecSub(Dec(spot_price, 0), gex_result.pin[1])
                      IN /\ (bias = "NEUTRAL_PIN")
                              <=> ( /\ ~DecLess(Dec(6, 0), distance)
                                    /\ ~DecLess(distance, Dec(0 - 6, 0)) )
                         /\ (bias = "BEARISH_PULLBACK")
                              <=> DecLess(Dec(6, 0), distance)
                         /\ (bias = "BULLISH_REVERSION")
                              <=> DecLess(distance, Dec(0 - 6, 0))
                         /\ gex_result.distance_to_pin = Some(distance)

\* the pin is exactly 6 below the spot: still NEUTRAL_PIN
C23_Witness ==
    /\ GexReturned
    /\ spot_price = 5000
    /\ gex_result.pin = Some(Dec(4994, 0))
    /\ gex_result.distance_to_pin = Some(Dec(6, 0))
    /\ gex_result.direction_bias = "NEUTRAL_PIN"

\* The exposure the rows of one side give a strike: gamma * open interest *
\* 100 * spot^2 of each contributing row, counted positive for a CALL and
\* negative for a PUT.
RECURSIVE SideTotal(_, _, _, _, _)
SideTotal(rows, n, side, strike, spot) ==
    IF n = 0 THEN DecZero
    ELSE LET row == rows[n]
             amount == DecMul(DecMul(DecMul(row.gamma, Dec(row.open_interest, 0)),
                                     Dec(100, 0)),
                              Dec(spot * spot, 0))
             rest == SideTotal(rows, n - 1, side, strike, spot)
         IN IF row.side = side /\ row.strike = strike /\ row.open_interest > 0
               /\ row.gamma # DecZero /\ row.strike.m > 0
            THEN IF side = "CALL" THEN DecAdd(rest, amount) ELSE DecSub(rest, amount)
            ELSE rest

SideStrikes(side) ==
    {gex_rows[i].strike : i \in {j \in 1..Len(gex_rows) :
        /\ gex_rows[j].side = side
        /\ gex_rows[j].open_interest > 0
        /\ gex_rows[j].gamma # DecZero
        /\ gex_rows[j].strike.m > 0}}

SideExposure(side, k) == SideTotal(gex_rows, Len(gex_rows), side, k, spot_price)

\* C24: the call wall is a strike whose accumulated call-only exposure no other
\* strike exceeds, the put wall a strike whose accumulated put-only exposure no
\* other strike is below; a wall is none exactly when no contract of its side
\* contributed.
C24_Walls ==
    GexReturned
        => /\ (gex_result.call_wall = Absent) <=> (SideStrikes("CALL") = {})
           /\ (gex_result.put_wall = Absent) <=> (SideStrikes("PUT") = {})
           /\ gex_result.call_wall # Absent
                => /\ gex_result.call_wall[1] \in SideStrikes("CALL")
                   /\ \A k \in SideStrikes("CALL") :
                        ~DecLess(SideExposure("CALL", gex_result.call_wall[1]),
                                 SideExposure("CALL", k))
           /\ gex_result.put_wall # Absent
                => /\ gex_result.put_wall[1] \in SideStrikes("PUT")
                   /\ \A k \in SideStrikes("PUT") :
                        ~DecLess(SideExposure("PUT", k),
                                 SideExposure("PUT", gex_result.put_wall[1]))

\* two put strikes, the second one the more negative: it is the put wall, and
\* there is no call wall
C24_Witness ==
    /\ GexReturned
    /\ Len(put_gex_by_strike) >= 2
    /\ DecLess(put_gex_by_strike[2].v, put_gex_by_strike[1].v)
    /\ gex_result.put_wall = Some(put_gex_by_strike[2].k)
    /\ gex_result.call_wall = Absent

\* the fields extract_quote_price may read, the quote's own first and then
\* those of its nested "quote" dict, each in the order lastPrice, last, mark,
\* closePrice, bidPrice, askPrice
CandidateFields(quote) ==
    LET order == <<"lastPrice", "last", "mark", "closePrice", "bidPrice", "askPrice">>
        own == IF quote.mapping THEN [i \in 1..6 |-> quote.top[1][order[i]]] ELSE << >>
        inner == IF quote.mapping /\ quote.nested # << >>
                 THEN [i \in 1..6 |-> quote.nested[1][order[i]]] ELSE << >>
    IN own \o inner
StrictlyPositive(value) == value.t \in {"number", "numeric text"} /\ value.v > 0
QuotePriceReturned == quote_price # << >>

\* C27: extract_quote_price returns the first strictly positive finite value
\* among the fields lastPrice, last, mark, closePrice, bidPrice, askPrice of the
\* quote itself and then of its nested "quote" object; it returns none when no
\* candidate is strictly positive or the quote is not a mapping.
C27_FirstPositiveCandidate ==
    QuotePriceReturned
        => LET fields == CandidateFields(index_quote)
               positive == {i \in 1..Len(fields) : StrictlyPositive(fields[i])}
           IN IF positive = {}
              THEN quote_price[1] = Absent
              ELSE quote_price[1]
                       = Some(fields[CHOOSE i \in positive :
                                         \A j \in positive : i <= j].v)

\* nothing positive in the quote itself, the nested mark skipped for the
\* nested last
C27_Witness ==
    /\ QuotePriceReturned
    /\ index_quote.mapping
    /\ index_quote.nested # << >>
    /\ \A k \in KeySet : ~StrictlyPositive(index_quote.top[1][k])
    /\ ~StrictlyPositive(index_quote.nested[1]["lastPrice"])
    /\ StrictlyPositive(index_quote.nested[1]["last"])
    /\ StrictlyPositive(index_quote.nested[1]["mark"])
    /\ quote_price[1] = Some(index_quote.nested[1]["last"].v)

C26_NoSpotIsNeutral ==
    (GexReturned /\ index_spot = <<0>>)
        => /\ gex_result.pin = Absent
           /\ gex_result.direction_bias = "UNKNOWN"
           /\ gex_result.call_wall = Absent
           /\ gex_result.put_wall = Absent

Scored == score_near # << >> /\ score_far # << >>

\* C22: for a spot price > 0 and a fixed positive exposure, the score of the
\* strike farther from the spot is strictly below the score of the nearer one.
C22_ScoreStrictlyDecreasing ==
    Scored => RatioLess(score_far[1], score_near[1])

PrimarySymbol(k) == [dollar |-> TRUE, name |-> k]
FallbackSymbol(k) == [dollar |-> FALSE, name |-> k]

\* C28: within one refresh the option chain is asked first for the primary
\* ($-prefixed) symbol and for the de-prefixed symbol only after the primary
\* answered with an empty chain; no request follows a non-empty answer, the
\* chain used is the first non-empty one, and at most two requests are made.
C28_ChainFallback ==
    \A t \in Threads :
        LET f == Frame(t)
            asked == f.chain_requests
            answers == f.chain_answers
        IN /\ Len(asked) <= 2
           /\ Len(answers) <= Len(asked)
           /\ Len(asked) >= 1 => asked[1] = PrimarySymbol(f.index_code)
           /\ Len(asked) = 2
                => /\ asked[2] = FallbackSymbol(f.index_code)
                   /\ Len(answers) >= 1
                   /\ answers[1] = "EMPTY"
           /\ f.chain = "CHAIN"
                => /\ answers[Len(answers)] = "CHAIN"
                   /\ \A i \in 1..(Len(answers) - 1) : answers[i] = "EMPTY"
           /\ f.chain = "EMPTY"
                => /\ Len(answers) = 2
                   /\ \A i \in 1..2 : answers[i] = "EMPTY"

\* the primary symbol gave an empty chain, the fallback symbol's chain is used
C28_Witness ==
    \E t \in Threads :
        /\ Frame(t).chain_requests
              = <<PrimarySymbol(Frame(t).index_code), FallbackSymbol(Frame(t).index_code)>>
        /\ Frame(t).chain_answers = <<"EMPTY", "CHAIN">>
        /\ Frame(t).chain = "CHAIN"

\* the thread holds the refresh slot of key k: it acquired it at line 464 and
\* has not left the try block, or acquired it at line 481 and has not reached
\* line 482
HoldsSlot(t, k) ==
    /\ thread[t].index_code = k
    /\ \/ thread[t].holds /\ thread[t].pc \in RefreshBodyPcs \cup {"gs_release"}
       \/ thread[t].pc = "gs_wait_release"

\* C29: a refresh slot is taken only while a running call holds it: the call
\* that acquired it releases it as it ends, whether its refresh returned a
\* snapshot, cached a failure or raised, so no finished call leaves a slot
\* taken and with every call finished every slot is free.
C29_SlotReleased ==
    /\ [](\A k \in DOMAIN refresh_locks :
             refresh_locks[k] => \E t \in Threads : HoldsSlot(t, k))
    /\ [][\A t \in Threads :
             (HoldsSlot(t, thread[t].index_code) /\ thread'[t].pc = "done")
                 => ~refresh_locks'[thread[t].index_code]]_vars

\* the only call there was took the slot, its refresh raised, and the slot is
\* free again
C29_Witness ==
    /\ calls = 1
    /\ \E t \in Threads :
         /\ Done(t)
         /\ thread[t].refreshes = 1
         /\ thread[t].raised = RequestException
         /\ refresh_locks[thread[t].index_code] = FALSE

\* C31: serving a stale copy has no effect on the shared state: the snapshot
\* of a SnapshotState and the snapshots of a history never carry the stale
\* flag, and the step in which a get_snapshot call returns a stale copy leaves
\* SnapshotState (snapshot, updated-at, last_error) and history unchanged.
C31_StaleServingLeavesCache ==
    /\ [](/\ \A k \in DOMAIN states :
               "stale" \notin DOMAIN states[k].snapshot.system
          /\ \A k \in DOMAIN history_cache :
               \A i \in 1..Len(history_cache[k]) :
                   "stale" \notin DOMAIN history_cache[k][i].system)
    /\ [][ \A t \in Threads :
             ( /\ thread[t].pc # "done"
               /\ thread'[t].pc = "done"
               /\ thread'[t].result # Nil
               /\ "stale" \in DOMAIN thread'[t].result.system )
             => /\ states' = states
                /\ history_cache' = history_cache ]_vars

\* a call returned a stale copy of the cached snapshot; the cache still holds
\* the snapshot unmarked, with its error and as the last entry of the history
C31_Witness ==
    \E t \in Threads :
        LET k == thread[t].index_code
        IN /\ Done(t)
           /\ thread[t].result # Nil
           /\ IsMarkedStale(thread[t].result)
           /\ states[k].snapshot = thread[t].snapshot
           /\ states[k].last_error # None
           /\ Last(history_cache[k]) = thread[t].snapshot
           /\ thread[t].result # states[k].snapshot

\* C32: after any sequence of refreshes on any keys, every key with a cached
\* snapshot has a non-empty in-memory history whose last element is that
\* snapshot.
C32_CachedIsLastOfHistory ==
    \A k \in AllKeys :
        (k \in DOMAIN states /\ states[k].snapshot # Nil)
            => /\ GetList(history_cache, k) # << >>
               /\ history_cache[k][Len(history_cache[k])] = states[k].snapshot
               /\ states[k].snapshot.index = k

\* both keys were refreshed, one of them with a failure
C32_Witness ==
    /\ \A k \in AllKeys :
         /\ k \in DOMAIN states
         /\ Last(history_cache[k]) = states[k].snapshot
    /\ states["SPX"].snapshot.system.error = None
    /\ states["NDX"].snapshot.system.error # None

\* C33: for every key SnapshotState.last_error is none exactly when the
\* system.error of the cached snapshot is none, and equals it otherwise; after
\* a successful refresh that followed a failed one last_error is none.
C33_LastErrorMirrorsSnapshot ==
    \A k \in DOMAIN states :
        LET state == states[k]
            h == GetList(history_cache, k)
        IN /\ (state.last_error = None) <=> (state.snapshot.system.error = None)
           /\ state.last_error # None
                => state.last_error = state.snapshot.system.error
           /\ ( /\ Len(h) >= 2
                /\ h[Len(h) - 1].system.error # None
                /\ h[Len(h)].system.error = None )
              => state.last_error = None

\* a failed refresh of a key was followed by a successful one
C33_Witness ==
    \E k \in DOMAIN states :
        /\ Len(history_cache[k]) = 2
        /\ history_cache[k][1].system.error = ErrorMessage
        /\ history_cache[k][2].system.error = None
        /\ states[k].snapshot = history_cache[k][2]
        /\ states[k].last_error = None

\* C34: a step of a get_snapshot call (its refresh included) on one key leaves
\* the SnapshotState, the history and the refresh slot of every other key as
\* they were; and a caller that tries the slot of its key while no call holds
\* that slot acquires it, whatever refreshes are in flight on other keys.
C34_KeysAreIndependent ==
    [][ \A t \in Threads :
          thread'[t] # thread[t]
          => LET k == thread'[t].index_code
             IN /\ \A o \in AllKeys \ {k} :
                     /\ Get(states', o) = Get(states, o)
                     /\ GetList(history_cache', o) = GetList(history_cache, o)
                     /\ (o \in DOMAIN refresh_locks') = (o \in DOMAIN refresh_locks)
                     /\ o \in DOMAIN refresh_locks
                          => refresh_locks'[o] = refresh_locks[o]
                /\ ( /\ thread[t].pc = "gs_try"
                     /\ ~\E u \in Threads : HoldsSlot(u, k) )
                   => /\ thread'[t].pc = "rs_quotes"
                      /\ thread'[t].holds
                      /\ refresh_locks'[k] ]_vars

\* one key is cached; a refresh is in flight on each key, each holding the slot
\* of its own key
C34_Witness ==
    /\ \E t, u \in Threads :
         /\ thread[t].index_code = "SPX" /\ InRefreshBody(t) /\ thread[t].holds
         /\ thread[u].index_code = "NDX" /\ InRefreshBody(u) /\ thread[u].holds
    /\ refresh_locks["SPX"] /\ refresh_locks["NDX"]

\* C38: in every strategy UI block passed_count + blocking_fail_count +
\* soft_warn_count = total_checks = the number of checks of the strategy block
\* (the checks the pipeline evaluated, when it concluded), the three counts are
\* those of the passed, blocking-failed and advisory-failed checks, and the
\* timeline lists the checks in evaluation order, numbered 1..total_checks.
C38_UiCountsAddUp ==
    strategy_ui # Nil
        => LET ui == strategy_ui
           IN /\ ui.passed_count + ui.blocking_fail_count + ui.soft_warn_count
                    = ui.total_checks
              /\ ui.total_checks = Len(strategy.checks)
              /\ Concluded => ui.total_checks = Len(checks)
              /\ ui.passed_count
                    = Cardinality({i \in 1..Len(strategy.checks) : strategy.checks[i].ok})
              /\ ui.blocking_fail_count = Cardinality(BlockingFailures(strategy.checks))
              /\ ui.soft_warn_count = Cardinality(AdvisoryFailures(strategy.checks))
              /\ Len(ui.timeline) = ui.total_checks
              /\ \A i \in 1..Len(ui.timeline) :
                    /\ ui.timeline[i].order = i
                    /\ ui.timeline[i].name = strategy.checks[i].name
                    /\ ui.timeline[i].ok = strategy.checks[i].ok

\* three checks: one passed, one failed as a blocking check, one as an
\* advisory check
C38_Witness ==
    /\ strategy_ui # Nil
    /\ Concluded
    /\ strategy_ui.total_checks = 3
    /\ strategy_ui.passed_count = 1
    /\ strategy_ui.blocking_fail_count = 1
    /\ strategy_ui.soft_warn_count = 1
    /\ strategy_ui.timeline[3].order = 3
    /\ strategy_ui.timeline[3].name = "realized_volatility"

\* the strikes of the contracts that contribute exposure: open interest > 0,
\* gamma # 0, strike > 0
ContributingStrikes ==
    {gex_rows[i].strike : i \in {j \in 1..Len(gex_rows) :
        /\ gex_rows[j].open_interest > 0
        /\ gex_rows[j].gamma # DecZero
        /\ gex_rows[j].strike.m > 0}}

OutsidePcs == {"try_slot", "wait_slot", "release_slot", "upstream", "write_history"}

\* C35: no interleaving of get_snapshot, refresh_snapshot, get_history,
\* health and debug calls deadlocks. The thread holding the state mutex is
\* inside the body of a `with self._lock` block, never waiting for a refresh
\* slot, in upstream or file I/O, or at another `with self._lock`; and every
\* call in progress can take its next step, or waits for the state mutex
\* while the thread holding it can take its own.
C35_NoDeadlock ==
    /\ state_mutex # None =>
          /\ At(state_mutex, "locked")
          /\ lock_frames[state_mutex].pc \notin OutsidePcs
    /\ \A t \in Threads :
          lock_frames[t] # Nil =>
              \/ ENABLED LockStep(t)
              \/ /\ At(t, "acquire")
                 /\ state_mutex \in Threads \ {t}
                 /\ ENABLED LockStep(state_mutex)

\* One thread holds the refresh slot and stands at a `with self._lock` of its
\* refresh while another thread holds the state mutex.
C35_Witness ==
    \E a \in Threads, b \in Threads :
        /\ a # b
        /\ slot_holder = a
        /\ At(a, "acquire")
        /\ lock_frames[a].slot
        /\ state_mutex = b
        /\ At(b, "locked")

\* The check called `name` is recorded in cs as a failed blocking check.
FailedBlocking(cs, name) ==
    \E i \in 1..Len(cs) : cs[i].name = name /\ ~cs[i].ok /\ cs[i].blocking
PriceMissing ==
    \/ signal_input.pin_price = Absent
    \/ signal_input.index_price = Absent
    \/ signal_input.vix = Absent

\* C36: whenever the pin price, the index price or the VIX given to the check
\* pipeline is None, the strategy's action is NO_TRADE, and the pipeline, when
\* it returns, has recorded at least one of vix_available, gex_pin and
\* core_signal as a failed blocking check.
C36_MissingPriceBlocksTrade ==
    (signal_input # Nil /\ strategy # Nil /\ PriceMissing) =>
        /\ strategy.action = "NO_TRADE"
        /\ Concluded =>
              \E name \in {"vix_available", "gex_pin", "core_signal"} :
                  FailedBlocking(strategy.checks, name)

\* The pipeline returned for a run given the pin and the VIX but no index
\* price, on a day when every other filter passes: core_signal alone fails.
C36_Witness ==
    /\ signal_input # Nil
    /\ Concluded
    /\ signal_input.index_price = Absent
    /\ signal_input.pin_price # Absent
    /\ signal_input.vix # Absent
    /\ FailedBlocking(strategy.checks, "core_signal")
    /\ ~FailedBlocking(strategy.checks, "gex_pin")
    /\ ~FailedBlocking(strategy.checks, "vix_available")
    /\ strategy.action = "NO_TRADE"

VolatilityChecks == {"vix_spike", "realized_volatility"}

\* C37: in fast mode the vix_spike and realized_volatility checks are only
\* ever recorded as passed and advisory (realized_volatility in every run,
\* vix_spike in every run that has a VIX), so neither adds a reason, and a
\* NO_TRADE always has a failed blocking check of another name behind it.
C37_FastModeVolatilityChecksPass ==
    (signal_input # Nil /\ signal_input.fast_mode) =>
        /\ \A i \in 1..Len(checks) :
              checks[i].name \in VolatilityChecks =>
                  /\ checks[i].ok
                  /\ ~checks[i].blocking
                  /\ \A j \in 1..Len(reasons) : reasons[j] # checks[i].detail
        /\ Concluded =>
              /\ \E i \in 1..Len(checks) : checks[i].name = "realized_volatility"
              /\ (\E i \in 1..Len(checks) : checks[i].name = "vix_spike")
                     <=> signal_input.vix # Absent
              /\ strategy.action = "NO_TRADE" =>
                     \E i \in BlockingFailures(checks) :
                         checks[i].name \notin VolatilityChecks

\* A fast-mode run, on a day when the external checks would both have
\* failed, recorded both as passed and concluded TRADE.
C37_Witness ==
    /\ signal_input # Nil
    /\ signal_input.fast_mode
    /\ ~signal_input.answers.vix_safe
    /\ ~signal_input.answers.rvol_ok
    /\ Concluded
    /\ strategy.action = "TRADE"
    /\ \E i \in 1..Len(checks) : checks[i].name = "vix_spike" /\ checks[i].ok
    /\ \E i \in 1..Len(checks) : checks[i].name = "realized_volatility" /\ checks[i].ok


Running(t) == thread[t].pc \notin {"idle", "done"}

\* C30: when every upstream request is answered and the threads are scheduled
\* fairly, every get_snapshot call that was started ends, by returning or by
\* raising.
C30_EveryCallEnds ==
    \A t \in Threads : Running(t) ~> Done(t)

\* both calls found no snapshot and both have ended, one of them after waiting
\* for the other's refresh
C30_Witness ==
    /\ calls = 2
    /\ \A t \in Threads : Done(t) /\ thread[t].snapshot = Nil
    /\ \E t \in Threads : thread[t].refreshes = 0 /\ thread[t].result # Nil
    /\ \E t \in Threads : thread[t].refreshes = 1

====
